---- MODULE Spec2Model ----
(***************************************************************************)
(* Model of the benchmark evaluation script                                *)
(* src/visualization/evaluate_benchmark.py: core tick discovery, the weak  *)
(* and strong scaling aggregation loops, the scaling factor loops and the  *)
(* points at which the chart code can raise; and of the script            *)
(* src/visualization/csv_resorter.py that writes the readable csv files    *)
(* (specification ResorterSpec).                                           *)
(* DetermineSpec applies determine_algorithm to an argument and a value   *)
(* of `line` chosen independently.                                         *)
(* NewSpec models the core tick discovery and the weak aggregation loop    *)
(* of evaluate_benchmark_new.py, AccessorSpec direct calls of the keyed    *)
(* accessors, and FlowSpec the grid allocation and the fill loop of        *)
(* visualize_flow.py.                                                      *)
(*                                                                         *)
(* Conventions.                                                            *)
(*  - A csv row is the tuple of its columns; a file is the tuple of its    *)
(*    rows, the header row first. Numeric columns are written as the       *)
(*    integers int() / float() parse them to (inputs whose numeric columns *)
(*    do not parse are outside the modelled inputs).                       *)
(*  - Python indices are 0-based; Col and Row translate them.              *)
(*  - A float is modelled as an exact fraction n/d kept in lowest terms,   *)
(*    with d = 0 for the IEEE special values: 1/0 is +inf, 0/0 is NaN.     *)
(*    All modelled runtimes are >= 0, so -inf never arises.  Rounding of   *)
(*    float64 arithmetic is not modelled.                                  *)
(***************************************************************************)
EXTENDS Integers, Sequences, FiniteSets, TLC

VARIABLES
    read_content_weak,    \* rows of weak_scaling_readable.csv
    read_content_strong,  \* rows of strong_scaling_readable.csv
    core_ticks,           \* list of discovered core counts
    line,                 \* module-level variable `line`
    algorithm,            \* module-level variable `algorithm`
    called_algorithm_name,
                          \* argument algorithm_name of the last call of
                          \* determine_algorithm, "" before the first call
    results,              \* numpy array results[algorithm][pattern][content][tick]
    scaling_results,      \* numpy array scaling_results[algorithm][pattern][tick]
    efficiency_results,   \* numpy array efficiency_results[algorithm][pattern][tick]
    i,                    \* index of the next row / access pattern to process
    pc,                   \* position in the script ("done" after "All done.")
    err,                  \* exception that ended the run at pc, "none" if none did
    stdout,               \* diagnostics printed by determine_algorithm
    written,              \* chart files saved so far
    global_optimum,       \* module-level variable `global_optimum`
    second_optimum,       \* module-level variable `second_optimum`
    \* csv_resorter.py
    results_files,        \* rows of ../runtimes/<test>_results.csv, by test
    readable_files,       \* rows of ../runtimes/<test>_readable.csv, <<>> if not written
    test,                 \* 0-based index into TESTS of the pass of `for test in TESTS`
    read_content,         \* list read_content of the resorter
    future_content,       \* list future_content of the resorter
    rpc,                  \* position in the resorter ("idle" when it does not run)
    rerr,                 \* exception that ended the resorter at rpc, "none" if none did
    \* direct calls of the keyed accessors
    call,                 \* name and arguments of the last accessor call
    returned,             \* value the last get_result / get_scaling_result returned
    calls,                \* number of set_result / set_scaling_result calls made
    \* visualize_flow.py
    results_csv,          \* rows of ../build/results.csv, the header first
    min_time_step, min_x, min_y,
    max_time_step, max_x, max_y,
    densities,            \* the [time][y][x] indices assigned so far
    flow_row,             \* index i of the next row of the fill loop
    fpc,                  \* position in visualize_flow.py ("idle" when it does not run)
    ferr                  \* exception that ended visualize_flow.py, "none" if none did

evaluation_vars ==
    <<read_content_weak, read_content_strong, core_ticks, line, algorithm,
      results, scaling_results, efficiency_results, i, pc, err, stdout,
      written, global_optimum, second_optimum, called_algorithm_name>>

resorter_vars ==
    <<results_files, readable_files, test, read_content, future_content, rpc, rerr>>

accessor_vars == <<call, returned, calls>>

flow_vars ==
    <<results_csv, min_time_step, min_x, min_y, max_time_step, max_x, max_y,
      densities, flow_row, fpc, ferr>>

vars == <<evaluation_vars, resorter_vars, accessor_vars, flow_vars>>

(***************************************************************************)
(* Global definitions of the script                                        *)
(***************************************************************************)
ACCESS_PATTERNS == <<"collision", "stream", "bundle">>
ALGORITHMS == <<"two_step", "swap", "two_lattice_framework", "two_lattice", "shift">>
CONTENTS == <<"averages", "lower_bounds", "upper_bounds">>

(***************************************************************************)
(* Floats                                                                  *)
(***************************************************************************)
RECURSIVE GCD(_, _)
GCD(a, b) == IF b = 0 THEN a ELSE GCD(b, a % b)

\* The float n/d in lowest terms; d = 0 gives +inf (n > 0) or NaN (n = 0).
F(n, d) ==
    IF d = 0 THEN [k |-> "num", n |-> (IF n = 0 THEN 0 ELSE 1), d |-> 0, m |-> 0]
    ELSE IF n = 0 THEN [k |-> "num", n |-> 0, d |-> 1, m |-> 0]
    ELSE [k |-> "num", n |-> n \div GCD(n, d), d |-> d \div GCD(n, d), m |-> 0]

Zero == F(0, 1)
NaN == F(0, 0)
Inf == F(1, 0)

IsNaN(x) == x.n = 0 /\ x.d = 0
IsInf(x) == x.n # 0 /\ x.d = 0
IsFinite(x) == x.d # 0

\* a / b on float64: x/0 is inf, 0/0 is NaN (numpy warns, it does not raise).
FDiv(a, b) == F(a.n * b.d, a.d * b.n)

\* a * b
FMul(a, b) == F(a.n * b.n, a.d * b.d)

\* a < b, False when either side is NaN
FLess(a, b) ==
    /\ ~IsNaN(a) /\ ~IsNaN(b)
    /\ IF IsInf(a) THEN FALSE
       ELSE IF IsInf(b) THEN TRUE
       ELSE a.n * b.d < b.n * a.d

(***************************************************************************)
(* Rows and files                                                          *)
(***************************************************************************)
\* line[j] with Python's 0-based column index
Col(row, j) == row[j + 1]

\* read_content[r] with Python's 0-based row index
Row(file, r) == file[r + 1]

RECURSIVE SumSeq(_)
SumSeq(s) == IF s = <<>> THEN 0 ELSE Head(s) + SumSeq(Tail(s))

RECURSIVE SumSqSeq(_)
SumSqSeq(s) == IF s = <<>> THEN 0 ELSE Head(s) * Head(s) + SumSqSeq(Tail(s))

\* numpy.average(runtimes): the mean; NaN for an empty list
average_of(runtimes) == FDiv(F(SumSeq(runtimes), 1), F(Len(runtimes), 1))

\* numpy.std(runtimes), carried as its square, the population variance:
\* mean((x - mean)^2) = (n*sum(x^2) - sum(x)^2) / n^2; NaN for an empty list
std_squared(runtimes) ==
    F(Len(runtimes) * SumSqSeq(runtimes) - SumSeq(runtimes) * SumSeq(runtimes),
      Len(runtimes) * Len(runtimes))

\* The limits with n - 1 in place of n
confidence_error_n_minus_one(variance, n) ==
    << [k |-> "lower", n |-> variance.n, d |-> variance.d, m |-> n - 1],
       [k |-> "upper", n |-> variance.n, d |-> variance.d, m |-> n - 1] >>

\* confidence_error(standard_deviation, n): [lower_limit, upper_limit].  The
\* chi-squared quantile is not evaluated: a limit is carried as the pair
\* (variance, n) it is computed from, tagged with its side.  It is NaN
\* exactly when the variance is, and finite otherwise.
confidence_error(variance, n) ==
    << [k |-> "lower", n |-> variance.n, d |-> variance.d, m |-> n],
       [k |-> "upper", n |-> variance.n, d |-> variance.d, m |-> n] >>

\* extract_runtimes_from_line(line): the columns from index 3 on
extract_runtimes_from_line(row) == SubSeq(row, 4, Len(row))

(***************************************************************************)
(* determine_algorithm reads its argument in the first test and the        *)
(* module-level variable `line` in all the others.  None is modelled by    *)
(* isNone.                                                                 *)
(***************************************************************************)
Some(list) == [isNone |-> FALSE, list |-> list]
None == [isNone |-> TRUE, list |-> <<>>]

\* determine_algorithm without the fan-out of the sequential two-lattice name
determine_algorithm_no_fan_out(algorithm_name, global_line) ==
    IF algorithm_name \in {"parallel_two_lattice", "sequential_two_lattice"}
        THEN Some(<<"two_lattice">>)
    ELSE IF Col(global_line, 0) = "parallel_two_lattice_framework"
        THEN Some(<<"two_lattice_framework">>)
    ELSE IF Col(global_line, 0) \in {"parallel_two_step", "sequential_two_step"}
        THEN Some(<<"two_step">>)
    ELSE IF Col(global_line, 0) \in {"parallel_swap", "sequential_swap"}
        THEN Some(<<"swap">>)
    ELSE IF Col(global_line, 0) \in {"parallel_shift", "sequential_shift"}
        THEN Some(<<"shift">>)
    ELSE None

determine_algorithm(algorithm_name, global_line) ==
    IF algorithm_name = "parallel_two_lattice" THEN Some(<<"two_lattice">>)
    ELSE IF Col(global_line, 0) = "parallel_two_lattice_framework"
        THEN Some(<<"two_lattice_framework">>)
    ELSE IF Col(global_line, 0) = "parallel_two_step"
            \/ Col(global_line, 0) = "sequential_two_step"
        THEN Some(<<"two_step">>)
    ELSE IF Col(global_line, 0) = "parallel_swap"
            \/ Col(global_line, 0) = "sequential_swap"
        THEN Some(<<"swap">>)
    ELSE IF Col(global_line, 0) = "parallel_shift"
            \/ Col(global_line, 0) = "sequential_shift"
        THEN Some(<<"shift">>)
    ELSE IF Col(global_line, 0) = "sequential_two_lattice"
        THEN Some(<<"two_lattice", "two_lattice_framework">>)
    ELSE None

(***************************************************************************)
(* Keyed accessors of the result arrays                                    *)
(***************************************************************************)
\* The index loops of set_result / get_result: the 0-based position of the
\* first match, 0 when nothing matches.
LookupIndex(list, x) ==
    IF \E j \in 1..Len(list) : list[j] = x
    THEN (CHOOSE j \in 1..Len(list) :
            list[j] = x /\ \A h \in 1..(j - 1) : list[h] # x) - 1
    ELSE 0

\* set_result that keeps a value stored before (the first row wins)
set_result_keep_first(res, algo, access_pattern, content, core_tick, value) ==
    IF res[<<LookupIndex(ALGORITHMS, algo),
             LookupIndex(ACCESS_PATTERNS, access_pattern),
             LookupIndex(CONTENTS, content),
             core_tick>>] = F(0, 1)
    THEN [res EXCEPT ![<<LookupIndex(ALGORITHMS, algo),
                         LookupIndex(ACCESS_PATTERNS, access_pattern),
                         LookupIndex(CONTENTS, content),
                         core_tick>>] = value]
    ELSE res

\* set_result without the access pattern lookup (index 0 for every pattern)
set_result_first_pattern(res, algo, access_pattern, content, core_tick, value) ==
    [res EXCEPT ![<<LookupIndex(ALGORITHMS, algo),
                    0,
                    LookupIndex(CONTENTS, content),
                    core_tick>>] = value]

\* set_result writing the value under every content of the key
set_result_all_contents(res, algo, access_pattern, content, core_tick, value) ==
    [key \in DOMAIN res |->
        IF /\ key[1] = LookupIndex(ALGORITHMS, algo)
           /\ key[2] = LookupIndex(ACCESS_PATTERNS, access_pattern)
           /\ key[4] = core_tick
        THEN value ELSE res[key]]

set_result(res, algo, access_pattern, content, core_tick, value) ==
    [res EXCEPT ![<<LookupIndex(ALGORITHMS, algo),
                    LookupIndex(ACCESS_PATTERNS, access_pattern),
                    LookupIndex(CONTENTS, content),
                    core_tick>>] = value]

get_result(res, algo, access_pattern, content, core_tick) ==
    res[<<LookupIndex(ALGORITHMS, algo),
          LookupIndex(ACCESS_PATTERNS, access_pattern),
          LookupIndex(CONTENTS, content),
          core_tick>>]

set_scaling_result(sres, algo, access_pattern, core_tick, value) ==
    [sres EXCEPT ![<<LookupIndex(ALGORITHMS, algo),
                     LookupIndex(ACCESS_PATTERNS, access_pattern),
                     core_tick>>] = value]

\* The algorithm loop of get_scaling_result has no break: the last match wins.
LookupLastIndex(list, x) ==
    IF \E j \in 1..Len(list) : list[j] = x
    THEN (CHOOSE j \in 1..Len(list) :
            list[j] = x /\ \A h \in (j + 1)..Len(list) : list[h] # x) - 1
    ELSE 0

\* get_scaling_result reading the first tick whatever core_tick is
get_scaling_result_first_tick(sres, algo, access_pattern, core_tick) ==
    sres[<<LookupLastIndex(ALGORITHMS, algo),
           LookupIndex(ACCESS_PATTERNS, access_pattern),
           0>>]

get_scaling_result(sres, algo, access_pattern, core_tick) ==
    sres[<<LookupLastIndex(ALGORITHMS, algo),
           LookupIndex(ACCESS_PATTERNS, access_pattern),
           core_tick>>]

\* numpy.zeros(shape=(5,3,3,n))
ZerosResults(n) == [key \in (0..4) \X (0..2) \X (0..2) \X (0..(n - 1)) |-> Zero]

\* numpy.zeros(shape=(5,3,n))
ZerosScaling(n) == [key \in (0..4) \X (0..2) \X (0..(n - 1)) |-> Zero]

(***************************************************************************)
(* Core tick discovery                                                     *)
(***************************************************************************)
\* The scan without its break: a smaller core count is passed over
RECURSIVE TickScan_without_break(_, _, _, _)
TickScan_without_break(file, r, ticks, max_core_count) ==
    IF r >= Len(file) THEN ticks
    ELSE IF Col(Row(file, r), 2) > max_core_count
        THEN TickScan_without_break(file, r + 1, Append(ticks, Col(Row(file, r), 2)),
                                    Col(Row(file, r), 2))
    ELSE TickScan_without_break(file, r + 1, ticks, max_core_count)

\* The loop "Determine core ticks" from row r on, with the ticks and the
\* maximum found so far.
RECURSIVE TickScan(_, _, _, _)
TickScan(file, r, ticks, max_core_count) ==
    IF r >= Len(file) THEN ticks
    ELSE IF Col(Row(file, r), 2) > max_core_count
        THEN TickScan(file, r + 1, Append(ticks, Col(Row(file, r), 2)),
                      Col(Row(file, r), 2))
    ELSE IF Col(Row(file, r), 2) = max_core_count
        THEN TickScan(file, r + 1, ticks, max_core_count)
    ELSE ticks

\* An index lookup that answers position 0 for an absent value
\* list.index counting positions from 1
ListIndex_one_based(list, v) ==
    IF \E j \in 1..Len(list) : list[j] = v
    THEN CHOOSE j \in 1..Len(list) :
            list[j] = v /\ \A h \in 1..(j - 1) : list[h] # v
    ELSE -1

ListIndex_or_first(list, v) ==
    IF \E j \in 1..Len(list) : list[j] = v
    THEN (CHOOSE j \in 1..Len(list) :
            list[j] = v /\ \A h \in 1..(j - 1) : list[h] # v) - 1
    ELSE 0

\* core_ticks.index(v): 0-based position of the first v, -1 for ValueError
ListIndex(list, v) ==
    IF \E j \in 1..Len(list) : list[j] = v
    THEN (CHOOSE j \in 1..Len(list) :
            list[j] = v /\ \A h \in 1..(j - 1) : list[h] # v) - 1
    ELSE -1

(***************************************************************************)
(* Aggregation of one row ("Assign times to corresponding data set")       *)
(***************************************************************************)
\* The two loops "for current_algorithm in algorithm" of one row: the
\* average of every family first, then both bounds of every family.
\* The first loop with a break after its first pass
StoreContent_first_family(res, families, access_pattern, content, core_tick, value) ==
    IF families = <<>> THEN res
    ELSE set_result(res, Head(families), access_pattern, content, core_tick, value)

RECURSIVE StoreContent(_, _, _, _, _, _)
StoreContent(res, families, access_pattern, content, core_tick, value) ==
    IF families = <<>> THEN res
    ELSE StoreContent(
            set_result(res, Head(families), access_pattern, content, core_tick, value),
            Tail(families), access_pattern, content, core_tick, value)

RECURSIVE StoreBounds(_, _, _, _, _, _)
StoreBounds(res, families, access_pattern, core_tick, lower, upper) ==
    IF families = <<>> THEN res
    ELSE StoreBounds(
            set_result(
                set_result(res, Head(families), access_pattern, "lower_bounds",
                           core_tick, lower),
                Head(families), access_pattern, "upper_bounds", core_tick, upper),
            Tail(families), access_pattern, core_tick, lower, upper)

\* The body of the aggregation loop for one row whose families are known
\* and whose core count is the tick with index core_tick.
StoreRow(res, families, row, core_tick) ==
    StoreBounds(
        StoreContent(res, families, Col(row, 1), "averages", core_tick,
                     average_of(extract_runtimes_from_line(row))),
        families, Col(row, 1), core_tick,
        confidence_error(std_squared(extract_runtimes_from_line(row)),
                         Len(extract_runtimes_from_line(row)))[1],
        confidence_error(std_squared(extract_runtimes_from_line(row)),
                         Len(extract_runtimes_from_line(row)))[2])

\* The exception the loop body raises for a row, "none" if it raises none:
\* iterating over None is a TypeError, core_ticks.index of an absent core
\* count a ValueError.
RowException(row, ticks) ==
    IF determine_algorithm(Col(row, 0), row).isNone THEN "TypeError"
    ELSE IF ListIndex(ticks, Col(row, 2)) = -1 THEN "ValueError"
    ELSE "none"

\* What determine_algorithm prints for the row
Diagnostics(out, row) ==
    IF determine_algorithm(Col(row, 0), row).isNone
    THEN Append(out, <<"Unknown algorithm name:", Col(row, 0)>>)
    ELSE out

(***************************************************************************)
(* Scaling factors ("Determine weak / strong scaling factor")              *)
(***************************************************************************)
\* set_scaling_result(efficiency_results, ...) of the weak scaling loop
weak_efficiency(res, algo, access_pattern, t) ==
    FDiv(get_result(res, algo, access_pattern, "averages", 0),
         get_result(res, algo, access_pattern, "averages", t))

\* The weak scaling factor without the core count (the strong formula)
weak_scaling_factor_as_strong(res, algo, access_pattern, t, core_count) ==
    FDiv(get_result(res, algo, access_pattern, "averages", 0),
         get_result(res, algo, access_pattern, "averages", t))

\* The weak scaling factor with the tick's position for its core count
weak_scaling_factor_tick_position(res, algo, access_pattern, t, core_count) ==
    FDiv(FMul(F(t + 1, 1), get_result(res, algo, access_pattern, "averages", 0)),
         get_result(res, algo, access_pattern, "averages", t))

\* set_scaling_result(scaling_results, ...) of the weak scaling loop
weak_scaling_factor(res, algo, access_pattern, t, core_count) ==
    FDiv(FMul(F(core_count, 1), get_result(res, algo, access_pattern, "averages", 0)),
         get_result(res, algo, access_pattern, "averages", t))

\* set_scaling_result(scaling_results, ...) of the strong scaling loop
strong_scaling_factor(res, algo, access_pattern, t) ==
    FDiv(get_result(res, algo, access_pattern, "averages", 0),
         get_result(res, algo, access_pattern, "averages", t))

\* The strong efficiency without the division by the core count
strong_efficiency_no_cores(res, algo, access_pattern, t, core_count) ==
    FDiv(get_result(res, algo, access_pattern, "averages", 0),
         get_result(res, algo, access_pattern, "averages", t))

\* set_scaling_result(efficiency_results, ...) of the strong scaling loop
strong_efficiency(res, algo, access_pattern, t, core_count) ==
    FDiv(get_result(res, algo, access_pattern, "averages", 0),
         FMul(F(core_count, 1), get_result(res, algo, access_pattern, "averages", t)))

ScalingValue(kind, res, algo, access_pattern, t, core_count) ==
    CASE kind = "weak_efficiency" -> weak_efficiency(res, algo, access_pattern, t)
      [] kind = "weak_scaling" ->
            weak_scaling_factor(res, algo, access_pattern, t, core_count)
      [] kind = "strong_scaling" -> strong_scaling_factor(res, algo, access_pattern, t)
      [] kind = "strong_efficiency" ->
            strong_efficiency(res, algo, access_pattern, t, core_count)

\* The loops "for i in range(0, len(core_ticks))" / "for current_algo in
\* ALGORITHMS" for one access pattern and one of the two arrays, from tick
\* t and the a-th algorithm on.
RECURSIVE FillScaling(_, _, _, _, _, _, _)
FillScaling(kind, sres, res, access_pattern, ticks, t, a) ==
    IF t >= Len(ticks) THEN sres
    ELSE IF a > Len(ALGORITHMS)
        THEN FillScaling(kind, sres, res, access_pattern, ticks, t + 1, 1)
    ELSE FillScaling(kind,
            set_scaling_result(sres, ALGORITHMS[a], access_pattern, t,
                ScalingValue(kind, res, ALGORITHMS[a], access_pattern, t, ticks[t + 1])),
            res, access_pattern, ticks, t, a + 1)

(***************************************************************************)
(* Charts of one access pattern: where the chart code raises               *)
(***************************************************************************)
\* numpy.max / numpy.min over a family's runtimes +/- bound is NaN
RuntimeNaN(res, algo, access_pattern, n, bound) ==
    \E j \in 0..(n - 1) :
        \/ IsNaN(get_result(res, algo, access_pattern, "average", j))
        \/ IsNaN(get_result(res, algo, access_pattern, bound, j))

\* Runtime chart: numpy.max of an empty list raises ValueError; global_min_y
\* / global_max_y stay infinite when every family's extremum is NaN, and
\* math.floor / math.ceil of an infinity raise OverflowError.
RuntimePlotException(res, access_pattern, n) ==
    IF n = 0 THEN "ValueError"
    ELSE IF \/ \A a \in 1..Len(ALGORITHMS) :
                 RuntimeNaN(res, ALGORITHMS[a], access_pattern, n, "lower_bounds")
            \/ \A a \in 1..Len(ALGORITHMS) :
                 RuntimeNaN(res, ALGORITHMS[a], access_pattern, n, "upper_bounds")
        THEN "OverflowError"
    ELSE "none"

SpeedupNaN(sres, algo, access_pattern, n) ==
    \E j \in 0..(n - 1) : IsNaN(get_scaling_result(sres, algo, access_pattern, j))

SpeedupInf(sres, algo, access_pattern, n) ==
    \E j \in 0..(n - 1) : IsInf(get_scaling_result(sres, algo, access_pattern, j))

\* Speedup chart: ax.set_ylim([1, global_max_y+10]) raises ValueError for a
\* limit that is not finite: global_max_y is -inf when every family's
\* maximum is NaN and +inf when a family without NaN holds an inf.
SpeedupPlotException(sres, access_pattern, n) ==
    IF \A a \in 1..Len(ALGORITHMS) :
            SpeedupNaN(sres, ALGORITHMS[a], access_pattern, n)
        THEN "ValueError"
    ELSE IF \E a \in 1..Len(ALGORITHMS) :
            /\ ~SpeedupNaN(sres, ALGORITHMS[a], access_pattern, n)
            /\ SpeedupInf(sres, ALGORITHMS[a], access_pattern, n)
        THEN "ValueError"
    ELSE "none"

\* The charts one pass of the access pattern loop saves before the
\* exception e1 of the runtime chart or e2 of the speedup chart ends it
PatternCharts(mode, access_pattern, e1, e2) ==
    IF e1 # "none" THEN {}
    ELSE IF e2 # "none" THEN {<<"runtimes", mode, access_pattern>>}
    ELSE {<<"runtimes", mode, access_pattern>>,
          <<"speedup", mode, access_pattern>>,
          <<"efficiency", mode, access_pattern>>}

(***************************************************************************)
(* Best-configuration ranking                                              *)
(***************************************************************************)
\* The order in which all_minima lists the families
RANKING_FAMILIES ==
    <<"two_lattice", "two_lattice_framework", "two_step", "swap", "shift">>

\* algorithm_ranking_<family>: one (family, access pattern, value at the
\* last tick) tuple per access pattern
RankingList(sres, family, n) ==
    [p \in 1..Len(ACCESS_PATTERNS) |->
        <<family, ACCESS_PATTERNS[p],
          get_scaling_result(sres, family, ACCESS_PATTERNS[p], n - 1)>>]

\* tuple[2] < tuple[2] of two ranking entries, the only comparison the sort
\* makes; False whenever one of the values is NaN
KeyLess(x, y) == FLess(x[3], y[3])

Reverse(list) == [j \in 1..Len(list) |-> list[Len(list) + 1 - j]]

\* count_run of CPython's list.sort: the length of the run the list starts
\* with, strictly descending when desc and non-descending otherwise
RECURSIVE RunLength(_, _, _)
RunLength(a, run, desc) ==
    IF run < Len(a)
       /\ (IF desc THEN KeyLess(a[run + 1], a[run]) ELSE ~KeyLess(a[run + 1], a[run]))
    THEN RunLength(a, run + 1, desc)
    ELSE run

\* The 0-based position binarysort inserts pivot at, searching a[l..r-1]
RECURSIVE InsertionPoint(_, _, _, _)
InsertionPoint(a, pivot, l, r) ==
    IF l < r
    THEN IF KeyLess(pivot, a[l + ((r - l) \div 2) + 1])
         THEN InsertionPoint(a, pivot, l, l + ((r - l) \div 2))
         ELSE InsertionPoint(a, pivot, l + ((r - l) \div 2) + 1, r)
    ELSE l

\* binarysort: binary insertion of a[start..] into the sorted a[0..start-1]
RECURSIVE BinarySort(_, _)
BinarySort(a, start) ==
    IF start >= Len(a) THEN a
    ELSE BinarySort(
            SubSeq(a, 1, InsertionPoint(a, a[start + 1], 0, start))
            \o <<a[start + 1]>>
            \o SubSeq(a, InsertionPoint(a, a[start + 1], 0, start) + 1, start)
            \o SubSeq(a, start + 2, Len(a)),
            start + 1)

\* A descending sort that sorts ascending and reverses the result, without
\* reversing the list first: equal keys end up in reverse encounter order
list_sort_reversed_ties(list) ==
    IF Len(list) < 2 THEN list
    ELSE LET desc == KeyLess(list[2], list[1])
             run == RunLength(list, 2, desc)
         IN Reverse(BinarySort(
                IF desc THEN Reverse(SubSeq(list, 1, run))
                             \o SubSeq(list, run + 1, Len(list))
                ELSE list,
                run))

\* list.sort(key = lambda tuple : tuple[2], reverse=True) as CPython sorts
\* a list shorter than 64: the list is reversed, its leading run is found
\* (and reversed when descending), the rest is inserted by binary insertion,
\* and the result is reversed again. With comparable keys this is the stable
\* descending order; with a NaN key it is what these comparisons produce.
list_sort(list) ==
    IF Len(list) < 2 THEN list
    ELSE LET a == Reverse(list)
             desc == KeyLess(a[2], a[1])
             run == RunLength(a, 2, desc)
         IN Reverse(BinarySort(
                IF desc THEN Reverse(SubSeq(a, 1, run)) \o SubSeq(a, run + 1, Len(a))
                ELSE a,
                run))

\* The lists a sort call can leave behind
SortOutcomes(list) == {list_sort(list)}

\* The possible heads of the sorted ranking list of a family
FamilyBest(sres, family, n) ==
    {s[1] : s \in SortOutcomes(RankingList(sres, family, n))}

\* The possible (global_optimum, second_optimum) pairs: all_minima holds
\* the head of every family's sorted list and is sorted the same way
Optima(sres, n) ==
    {<<s[1], s[2]>> : s \in UNION {SortOutcomes(<<b1, b2, b3, b4, b5>>) :
        b1 \in FamilyBest(sres, RANKING_FAMILIES[1], n),
        b2 \in FamilyBest(sres, RANKING_FAMILIES[2], n),
        b3 \in FamilyBest(sres, RANKING_FAMILIES[3], n),
        b4 \in FamilyBest(sres, RANKING_FAMILIES[4], n),
        b5 \in FamilyBest(sres, RANKING_FAMILIES[5], n)}}

\* The access patterns whose numpy.max over algo's speedups is not NaN
CleanPatterns(sres, algo, n) ==
    {p \in 1..Len(ACCESS_PATTERNS) : ~SpeedupNaN(sres, algo, ACCESS_PATTERNS[p], n)}

\* Weak scaling, speedup chart of the best family: global_max_y is still
\* -inf when none of its access patterns is free of NaN, and +inf when one
\* holds an inf; set_ylim then raises ValueError.
FirstBestException(sres, algo, n) ==
    IF CleanPatterns(sres, algo, n) = {} THEN "ValueError"
    ELSE IF \E p \in CleanPatterns(sres, algo, n) :
                SpeedupInf(sres, algo, ACCESS_PATTERNS[p], n)
        THEN "ValueError"
    ELSE "none"

\* The chart of the runner-up starts from the finite global_max_y of the
\* best family's chart
SecondBestException(sres, algo, n) ==
    IF \E p \in CleanPatterns(sres, algo, n) :
            SpeedupInf(sres, algo, ACCESS_PATTERNS[p], n)
        THEN "ValueError"
    ELSE "none"

\* Strong scaling: ax.set_ylim([1, numpy.ceil(global_optimum[2]+2)]) raises
\* ValueError when the best value is not finite
StrongBestException(optimum) ==
    IF IsFinite(optimum[3]) THEN "none" ELSE "ValueError"

BestCharts(kind, mode, optima, e1, e2) ==
    IF e1 # "none" THEN {}
    ELSE IF e2 # "none" THEN {<<kind, mode, optima[1][1]>>}
    ELSE {<<kind, mode, optima[1][1]>>, <<kind, mode, optima[2][1]>>}

(***************************************************************************)
(* Input files                                                             *)
(***************************************************************************)
\* Most data rows of a freely chosen file
MaxRows == 2

Header == <<"algorithm", "access_pattern", "cores", "runtime[s]">>

SEQUENTIAL_ALGORITHMS ==
    <<"sequential_two_lattice", "sequential_two_step", "sequential_swap",
      "sequential_shift">>
PARALLEL_ALGORITHMS ==
    <<"parallel_two_lattice", "parallel_two_lattice_framework", "parallel_two_step",
      "parallel_swap", "parallel_shift">>

Range(list) == {list[j] : j \in 1..Len(list)}

\* The algorithm names of the benchmark and one name outside the vocabulary
AlgorithmNames ==
    Range(SEQUENTIAL_ALGORITHMS) \cup Range(PARALLEL_ALGORITHMS) \cup {"parallel_esoteric"}

\* One row per algorithm name, a single runtime
NameRows == {<<a, "collision", 1, 10>> : a \in AlgorithmNames}

\* Rows of one algorithm with no runtime, one zero runtime or two runtimes,
\* on core counts 0, 1 and 2
ValueRows ==
    {<<"parallel_two_step", p, c>> \o r :
        p \in {"collision", "stream"},
        c \in {0, 1, 2},
        r \in {<<>>, <<0>>, <<2, 10>>}}

\* A row whose access pattern is outside ACCESS_PATTERNS
PatternRows == {<<"parallel_two_step", "diagonal", 1, 2>>}

WeakRows == NameRows \cup ValueRows \cup PatternRows

StrongRows ==
    {<<"parallel_two_step", "collision", c, r>> : c \in {0, 1, 4}, r \in {0, 2, 10}}

\* The files with a header and at most max data rows out of rows
Files(rows, max) ==
    {<<Header>> \o body : body \in UNION {[1..n -> rows] : n \in 0..max}}

\* Runtime of a parallel run in the complete files, by algorithm and pattern
ParallelRuntime(a, p) == 2 + ((a + 2 * p + 1) % 4)

\* A file as csv_resorter lays it out, with data for every family and
\* access pattern: the sequential rows on one core, then the parallel rows
\* on cores cores (none when cores = 1)
CompleteFile(cores) ==
    <<Header>>
    \o [r \in 1..12 |->
            <<SEQUENTIAL_ALGORITHMS[((r - 1) \div 3) + 1],
              ACCESS_PATTERNS[((r - 1) % 3) + 1], 1, 10>>]
    \o (IF cores = 1 THEN <<>>
        ELSE [r \in 1..15 |->
            <<PARALLEL_ALGORITHMS[((r - 1) \div 3) + 1],
              ACCESS_PATTERNS[((r - 1) % 3) + 1], cores,
              ParallelRuntime(((r - 1) \div 3) + 1, ((r - 1) % 3) + 1)>>])

CompleteFiles == {CompleteFile(1), CompleteFile(4)}

\* file without the rows of the algorithm names names
WithoutAlgorithms(file, names) ==
    LET Kept(row) == Col(row, 0) \notin names
    IN SelectSeq(file, Kept)

\* Complete files from which all rows of one family are missing
IncompleteFiles ==
    {WithoutAlgorithms(CompleteFile(4), names) :
        names \in {{"sequential_two_lattice", "parallel_two_lattice"},
                   {"sequential_two_step", "parallel_two_step"},
                   {"sequential_shift", "parallel_shift"}}}

\* Files of three rows of one algorithm and access pattern whose core
\* counts come in any order
TickOrderFiles ==
    {<<Header>> \o [r \in 1..3 |-> <<"parallel_two_step", "collision", c[r], 2>>] :
        c \in [1..3 -> {1, 2, 4}]}

\* The resorter is not running
\* visualize_flow.py does not run
FlowIdle ==
    /\ results_csv = <<>>
    /\ min_time_step = 0
    /\ min_x = 0
    /\ min_y = 0
    /\ max_time_step = 0
    /\ max_x = 0
    /\ max_y = 0
    /\ densities = {}
    /\ flow_row = 1
    /\ fpc = "idle"
    /\ ferr = "none"

\* No accessor has been called directly
NoCall ==
    [op |-> "none", algorithm |-> "", access_pattern |-> "", content |-> "",
     core_tick |-> 0, value |-> Zero]

AccessorIdle ==
    /\ call = NoCall
    /\ returned = Zero
    /\ calls = 0

ResorterIdle ==
    /\ results_files = <<>>
    /\ readable_files = <<>>
    /\ test = 0
    /\ read_content = <<>>
    /\ future_content = <<>>
    /\ rpc = "idle"
    /\ rerr = "none"

(***************************************************************************)
(* The script                                                              *)
(***************************************************************************)
\* State after both files are read (lines 240-255): `line` is the last row
\* the csv readers yielded.
Init ==
    /\ \/ /\ read_content_weak \in Files(WeakRows, MaxRows)
          /\ read_content_strong = <<Header>>
       \/ /\ read_content_weak = CompleteFile(4)
          /\ read_content_strong \in Files(StrongRows, MaxRows)
       \/ /\ read_content_weak \in CompleteFiles
          /\ read_content_strong \in CompleteFiles
       \/ /\ read_content_weak \in TickOrderFiles
          /\ read_content_strong = <<Header>>
       \/ /\ read_content_weak \in IncompleteFiles
          /\ read_content_strong = <<Header>>
       \/ /\ read_content_weak = CompleteFile(4)
          /\ read_content_strong \in IncompleteFiles
    /\ core_ticks = <<>>
    /\ line = read_content_strong[Len(read_content_strong)]
    /\ algorithm = Some(<<>>)
    /\ called_algorithm_name = ""
    /\ results = ZerosResults(0)
    /\ scaling_results = ZerosScaling(0)
    /\ efficiency_results = ZerosScaling(0)
    /\ i = 1
    /\ pc = "core_ticks"
    /\ err = "none"
    /\ stdout = <<>>
    /\ written = {}
    /\ global_optimum = <<>>
    /\ second_optimum = <<>>
    /\ ResorterIdle
    /\ AccessorIdle
    /\ FlowIdle

\* "Determine core ticks" and the allocation of results
DetermineCoreTicks ==
    /\ pc = "core_ticks"
    /\ err = "none"
    /\ core_ticks' = TickScan(read_content_weak, 1, <<>>, 0)
    /\ results' = ZerosResults(Len(core_ticks'))
    /\ IF Len(read_content_weak) > 1
       THEN /\ pc' = "weak_aggregation"
            /\ i' = 1
            /\ UNCHANGED <<scaling_results, efficiency_results>>
       ELSE /\ pc' = "weak_pattern"
            /\ i' = 0
            /\ scaling_results' = ZerosScaling(Len(core_ticks'))
            /\ efficiency_results' = ZerosScaling(Len(core_ticks'))
    /\ UNCHANGED <<called_algorithm_name, resorter_vars, flow_vars, accessor_vars>>
    /\ UNCHANGED <<read_content_weak, read_content_strong, line, algorithm, err,
                   stdout, written, global_optimum, second_optimum>>

\* One pass of the weak scaling aggregation loop; after the last row the
\* scaling arrays are allocated
AggregateWeak ==
    /\ pc = "weak_aggregation"
    /\ err = "none"
    /\ line' = Row(read_content_weak, i)
    /\ called_algorithm_name' = Col(line', 0)
    /\ algorithm' = determine_algorithm(called_algorithm_name', line')
    /\ stdout' = Diagnostics(stdout, line')
    /\ err' = RowException(line', core_ticks)
    /\ IF err' # "none"
       THEN UNCHANGED <<pc, results, i, scaling_results, efficiency_results>>
       ELSE /\ results' = StoreRow(results, algorithm'.list, line',
                                   ListIndex(core_ticks, Col(line', 2)))
            /\ IF i + 1 < Len(read_content_weak)
               THEN /\ i' = i + 1
                    /\ pc' = "weak_aggregation"
                    /\ UNCHANGED <<scaling_results, efficiency_results>>
               ELSE /\ i' = 0
                    /\ pc' = "weak_pattern"
                    /\ scaling_results' = ZerosScaling(Len(core_ticks))
                    /\ efficiency_results' = ZerosScaling(Len(core_ticks))
    /\ UNCHANGED <<resorter_vars, flow_vars, accessor_vars>>
    /\ UNCHANGED <<read_content_weak, read_content_strong, core_ticks, written,
                   global_optimum, second_optimum>>

\* One pass of "for access_pattern in ACCESS_PATTERNS" of the weak scaling
\* part: the scaling factors of the pattern, then its three charts
WeakPattern ==
    /\ pc = "weak_pattern"
    /\ err = "none"
    /\ efficiency_results' =
            FillScaling("weak_efficiency", efficiency_results, results,
                        ACCESS_PATTERNS[i + 1], core_ticks, 0, 1)
    /\ scaling_results' =
            FillScaling("weak_scaling", scaling_results, results,
                        ACCESS_PATTERNS[i + 1], core_ticks, 0, 1)
    /\ LET e1 == RuntimePlotException(results, ACCESS_PATTERNS[i + 1], Len(core_ticks))
           e2 == SpeedupPlotException(scaling_results', ACCESS_PATTERNS[i + 1],
                                      Len(core_ticks))
       IN /\ written' = written \cup PatternCharts("weak", ACCESS_PATTERNS[i + 1], e1, e2)
          /\ err' = IF e1 # "none" THEN e1 ELSE e2
    /\ IF err' # "none"
       THEN UNCHANGED <<pc, i>>
       ELSE IF i + 1 < Len(ACCESS_PATTERNS)
       THEN pc' = "weak_pattern" /\ i' = i + 1
       ELSE pc' = "weak_speedup_ranking" /\ i' = 0
    /\ UNCHANGED <<called_algorithm_name, resorter_vars, flow_vars, accessor_vars>>
    /\ UNCHANGED <<read_content_weak, read_content_strong, core_ticks, line,
                   algorithm, results, stdout, global_optimum, second_optimum>>

\* "Determine best algorithms for weak scaling", ranking by speedup, and
\* the speedup charts of the two best families
WeakSpeedupRanking ==
    /\ pc = "weak_speedup_ranking"
    /\ err = "none"
    /\ \E optima \in Optima(scaling_results, Len(core_ticks)) :
        LET e1 == FirstBestException(scaling_results, optima[1][1], Len(core_ticks))
            e2 == SecondBestException(scaling_results, optima[2][1], Len(core_ticks))
        IN /\ global_optimum' = optima[1]
           /\ second_optimum' = optima[2]
           /\ written' = written \cup BestCharts("best_speedup", "weak", optima, e1, e2)
           /\ err' = IF e1 # "none" THEN e1 ELSE e2
    /\ pc' = IF err' # "none" THEN pc ELSE "weak_efficiency_ranking"
    /\ UNCHANGED <<called_algorithm_name, resorter_vars, flow_vars, accessor_vars>>
    /\ UNCHANGED <<read_content_weak, read_content_strong, core_ticks, line,
                   algorithm, results, scaling_results, efficiency_results, i,
                   stdout>>

\* The second ranking of the weak scaling part, by efficiency, with its
\* charts, and the allocation of results for the strong scaling part
WeakEfficiencyRanking ==
    /\ pc = "weak_efficiency_ranking"
    /\ err = "none"
    /\ \E optima \in Optima(efficiency_results, Len(core_ticks)) :
        /\ global_optimum' = optima[1]
        /\ second_optimum' = optima[2]
        /\ written' = written
                \cup BestCharts("best_efficiency", "weak", optima, "none", "none")
                \cup BestCharts("runtime_variance", "weak", optima, "none", "none")
    /\ results' = ZerosResults(Len(core_ticks))
    /\ IF Len(read_content_strong) > 1
       THEN /\ pc' = "strong_aggregation"
            /\ i' = 1
            /\ UNCHANGED <<scaling_results, efficiency_results>>
       ELSE /\ pc' = "strong_pattern"
            /\ i' = 0
            /\ scaling_results' = ZerosScaling(Len(core_ticks))
            /\ efficiency_results' = ZerosScaling(Len(core_ticks))
    /\ UNCHANGED <<called_algorithm_name, resorter_vars, flow_vars, accessor_vars>>
    /\ UNCHANGED <<read_content_weak, read_content_strong, core_ticks, line,
                   algorithm, err, stdout>>

\* One pass of the strong scaling aggregation loop
AggregateStrong ==
    /\ pc = "strong_aggregation"
    /\ err = "none"
    /\ line' = Row(read_content_strong, i)
    /\ called_algorithm_name' = Col(line', 0)
    /\ algorithm' = determine_algorithm(called_algorithm_name', line')
    /\ stdout' = Diagnostics(stdout, line')
    /\ err' = RowException(line', core_ticks)
    /\ IF err' # "none"
       THEN UNCHANGED <<pc, results, i, scaling_results, efficiency_results>>
       ELSE /\ results' = StoreRow(results, algorithm'.list, line',
                                   ListIndex(core_ticks, Col(line', 2)))
            /\ IF i + 1 < Len(read_content_strong)
               THEN /\ i' = i + 1
                    /\ pc' = "strong_aggregation"
                    /\ UNCHANGED <<scaling_results, efficiency_results>>
               ELSE /\ i' = 0
                    /\ pc' = "strong_pattern"
                    /\ scaling_results' = ZerosScaling(Len(core_ticks))
                    /\ efficiency_results' = ZerosScaling(Len(core_ticks))
    /\ UNCHANGED <<resorter_vars, flow_vars, accessor_vars>>
    /\ UNCHANGED <<read_content_weak, read_content_strong, core_ticks, written,
                   global_optimum, second_optimum>>

\* One pass of "for access_pattern in ACCESS_PATTERNS" of the strong
\* scaling part
StrongPattern ==
    /\ pc = "strong_pattern"
    /\ err = "none"
    /\ scaling_results' =
            FillScaling("strong_scaling", scaling_results, results,
                        ACCESS_PATTERNS[i + 1], core_ticks, 0, 1)
    /\ efficiency_results' =
            FillScaling("strong_efficiency", efficiency_results, results,
                        ACCESS_PATTERNS[i + 1], core_ticks, 0, 1)
    /\ LET e1 == RuntimePlotException(results, ACCESS_PATTERNS[i + 1], Len(core_ticks))
           e2 == SpeedupPlotException(scaling_results', ACCESS_PATTERNS[i + 1],
                                      Len(core_ticks))
       IN /\ written' = written \cup PatternCharts("strong", ACCESS_PATTERNS[i + 1], e1, e2)
          /\ err' = IF e1 # "none" THEN e1 ELSE e2
    /\ IF err' # "none"
       THEN UNCHANGED <<pc, i>>
       ELSE IF i + 1 < Len(ACCESS_PATTERNS)
       THEN pc' = "strong_pattern" /\ i' = i + 1
       ELSE pc' = "strong_speedup_ranking" /\ i' = 0
    /\ UNCHANGED <<called_algorithm_name, resorter_vars, flow_vars, accessor_vars>>
    /\ UNCHANGED <<read_content_weak, read_content_strong, core_ticks, line,
                   algorithm, results, stdout, global_optimum, second_optimum>>

\* "Determine best algorithms for strong scaling", ranking by speedup
StrongSpeedupRanking ==
    /\ pc = "strong_speedup_ranking"
    /\ err = "none"
    /\ \E optima \in Optima(scaling_results, Len(core_ticks)) :
        /\ global_optimum' = optima[1]
        /\ second_optimum' = optima[2]
        /\ err' = StrongBestException(optima[1])
        /\ written' = written
                \cup BestCharts("best_speedup", "strong", optima, err', "none")
    /\ pc' = IF err' # "none" THEN pc ELSE "strong_efficiency_ranking"
    /\ UNCHANGED <<called_algorithm_name, resorter_vars, flow_vars, accessor_vars>>
    /\ UNCHANGED <<read_content_weak, read_content_strong, core_ticks, line,
                   algorithm, results, scaling_results, efficiency_results, i,
                   stdout>>

\* The second ranking of the strong scaling part, by efficiency; the
\* script ends after its charts
StrongEfficiencyRanking ==
    /\ pc = "strong_efficiency_ranking"
    /\ err = "none"
    /\ \E optima \in Optima(efficiency_results, Len(core_ticks)) :
        /\ global_optimum' = optima[1]
        /\ second_optimum' = optima[2]
        /\ written' = written
                \cup BestCharts("best_efficiency", "strong", optima, "none", "none")
                \cup BestCharts("runtime_variance", "strong", optima, "none", "none")
    /\ pc' = "done"
    /\ UNCHANGED <<called_algorithm_name, resorter_vars, flow_vars, accessor_vars>>
    /\ UNCHANGED <<read_content_weak, read_content_strong, core_ticks, line,
                   algorithm, results, scaling_results, efficiency_results, i,
                   err, stdout>>

Next ==
    \/ DetermineCoreTicks
    \/ AggregateWeak
    \/ WeakPattern
    \/ WeakSpeedupRanking
    \/ WeakEfficiencyRanking
    \/ AggregateStrong
    \/ StrongPattern
    \/ StrongSpeedupRanking
    \/ StrongEfficiencyRanking

Spec == Init /\ [][Next]_vars

(***************************************************************************)
(* csv_resorter.py                                                         *)
(***************************************************************************)
TESTS == <<"strong_scaling", "weak_scaling">>

\* line[-1]
LastField(row) == row[Len(row)]

\* "for line in read_content" of the sequential loop, from the k-th row on:
\* the last fields of the rows of the algorithm and the access pattern
RECURSIVE SequentialRuntimes(_, _, _, _)
SequentialRuntimes(content, k, algo, access_pattern) ==
    IF k > Len(content) THEN <<>>
    ELSE (IF content[k][1] = algo /\ content[k][2] = access_pattern
          THEN <<LastField(content[k])>> ELSE <<>>)
         \o SequentialRuntimes(content, k + 1, algo, access_pattern)

\* "for line in read_content" of the parallel loop, from the k-th row on:
\* the last fields of the rows of the algorithm, pattern and core count
RECURSIVE ParallelRuntimes(_, _, _, _, _)
ParallelRuntimes(content, k, algo, access_pattern, core_count) ==
    IF k > Len(content) THEN <<>>
    ELSE (IF /\ content[k][1] = algo
             /\ content[k][2] = access_pattern
             /\ content[k][3] = core_count
          THEN <<LastField(content[k])>> ELSE <<>>)
         \o ParallelRuntimes(content, k + 1, algo, access_pattern, core_count)

\* The rows the loop "for algo in SEQUENTIAL_ALGORITHMS" appends
SequentialLines(content) ==
    [r \in 1..(Len(SEQUENTIAL_ALGORITHMS) * Len(ACCESS_PATTERNS)) |->
        <<SEQUENTIAL_ALGORITHMS[((r - 1) \div Len(ACCESS_PATTERNS)) + 1],
          ACCESS_PATTERNS[((r - 1) % Len(ACCESS_PATTERNS)) + 1], 1>>
        \o SequentialRuntimes(content, 1,
                SEQUENTIAL_ALGORITHMS[((r - 1) \div Len(ACCESS_PATTERNS)) + 1],
                ACCESS_PATTERNS[((r - 1) % Len(ACCESS_PATTERNS)) + 1])]

\* int(math.log2(n)) for n >= 1
RECURSIVE Log2(_)
Log2(n) == IF n < 2 THEN 0 ELSE 1 + Log2(n \div 2)

\* core_ticks = [2 ** i for i in range(1, max_pow_core_count+1)]
resorter_core_ticks(max_core_count) == [j \in 1..Log2(max_core_count) |-> 2 ^ j]

\* The rows the loop "for algo in PARALLEL_ALGORITHMS" appends
ParallelLines(content, ticks) ==
    [r \in 1..(Len(PARALLEL_ALGORITHMS) * Len(ACCESS_PATTERNS) * Len(ticks)) |->
        LET algo == PARALLEL_ALGORITHMS[
                        ((r - 1) \div (Len(ACCESS_PATTERNS) * Len(ticks))) + 1]
            access_pattern == ACCESS_PATTERNS[
                        (((r - 1) \div Len(ticks)) % Len(ACCESS_PATTERNS)) + 1]
            core_count == ticks[((r - 1) % Len(ticks)) + 1]
        IN <<algo, access_pattern, core_count>>
           \o ParallelRuntimes(content, 1, algo, access_pattern, core_count)]

\* The exception of lines 40-41: read_content[-1] of an empty list is an
\* IndexError, int() of the header's "cores" and math.log2(0) a ValueError
CoreTickException(content) ==
    IF content = <<>> THEN "IndexError"
    ELSE IF content[Len(content)] = Header THEN "ValueError"
    ELSE IF content[Len(content)][3] < 1 THEN "ValueError"
    ELSE "none"

\* Most data rows of a freely chosen results file
MaxRawRows == 2

\* Rows of a results file: one sequential and one parallel algorithm
RawRows ==
    {<<a, p, c, r>> : a \in {"sequential_swap", "parallel_swap"},
                      p \in {"collision", "stream"},
                      c \in {1, 2, 4},
                      r \in {3, 7}}

\* A results file with runs of both algorithms on 1, 2 and 4 cores
SampleResults ==
    <<Header,
      <<"sequential_swap", "collision", 1, 7>>,
      <<"parallel_swap", "collision", 2, 3>>,
      <<"parallel_swap", "collision", 4, 3>>,
      <<"parallel_swap", "collision", 4, 7>> >>

\* The evaluation script is not running
EvaluationIdle ==
    /\ read_content_weak = <<Header>>
    /\ read_content_strong = <<Header>>
    /\ core_ticks = <<>>
    /\ line = Header
    /\ algorithm = Some(<<>>)
    /\ called_algorithm_name = ""
    /\ results = ZerosResults(0)
    /\ scaling_results = ZerosScaling(0)
    /\ efficiency_results = ZerosScaling(0)
    /\ i = 1
    /\ pc = "idle"
    /\ err = "none"
    /\ stdout = <<>>
    /\ written = {}
    /\ global_optimum = <<>>
    /\ second_optimum = <<>>

\* State at "Resorting .csv files...": the results files are on disk
ResorterInit ==
    /\ \E free \in Range(TESTS), file \in Files(RawRows, MaxRawRows) :
            results_files = [t \in Range(TESTS) |->
                                IF t = free THEN file ELSE SampleResults]
    /\ readable_files = [t \in Range(TESTS) |-> <<>>]
    /\ test = 0
    /\ read_content = <<>>
    /\ future_content = <<>>
    /\ rpc = "read"
    /\ rerr = "none"
    /\ EvaluationIdle
    /\ AccessorIdle
    /\ FlowIdle

\* Lines 21-29: reset of both lists and reading of the results file
ReadResults ==
    /\ rpc = "read"
    /\ rerr = "none"
    /\ read_content' = results_files[TESTS[test + 1]]
    /\ future_content' = <<Header>>
    /\ rpc' = "sequential"
    /\ UNCHANGED <<results_files, readable_files, test, rerr>>
    /\ UNCHANGED <<evaluation_vars, accessor_vars, flow_vars>>

\* Lines 31-38: one row per sequential algorithm and access pattern
ResortSequential ==
    /\ rpc = "sequential"
    /\ rerr = "none"
    /\ future_content' = future_content \o SequentialLines(read_content)
    /\ rpc' = "parallel"
    /\ UNCHANGED <<results_files, readable_files, test, read_content, rerr>>
    /\ UNCHANGED <<evaluation_vars, accessor_vars, flow_vars>>

\* Lines 40-52: the core ticks from the last row, then one row per parallel
\* algorithm, access pattern and core tick
ResortParallel ==
    /\ rpc = "parallel"
    /\ rerr = "none"
    /\ rerr' = CoreTickException(read_content)
    /\ IF rerr' # "none"
       THEN UNCHANGED <<future_content, rpc>>
       ELSE /\ future_content' =
                    future_content
                    \o ParallelLines(read_content,
                            resorter_core_ticks(read_content[Len(read_content)][3]))
            /\ rpc' = "write"
    /\ UNCHANGED <<results_files, readable_files, test, read_content>>
    /\ UNCHANGED <<evaluation_vars, accessor_vars, flow_vars>>

\* Lines 54-56: the readable file is written; then the next test, if any
WriteReadable ==
    /\ rpc = "write"
    /\ rerr = "none"
    /\ readable_files' = [readable_files EXCEPT ![TESTS[test + 1]] = future_content]
    /\ IF test + 1 < Len(TESTS)
       THEN test' = test + 1 /\ rpc' = "read"
       ELSE test' = test /\ rpc' = "done"
    /\ UNCHANGED <<results_files, read_content, future_content, rerr>>
    /\ UNCHANGED <<evaluation_vars, accessor_vars, flow_vars>>

ResorterNext ==
    \/ ReadResults
    \/ ResortSequential
    \/ ResortParallel
    \/ WriteReadable

ResorterSpec == ResorterInit /\ [][ResorterNext]_vars

(***************************************************************************)
(* determine_algorithm as a function of its argument and of `line`         *)
(***************************************************************************)
\* The rows the module-level variable `line` may hold at a call: the
\* header and one row per algorithm name
DetermineLines == {Header} \cup NameRows

\* State before a call of determine_algorithm: `line` holds some row
DetermineInit ==
    /\ line \in DetermineLines
    /\ read_content_weak = <<Header>>
    /\ read_content_strong = <<Header>>
    /\ core_ticks = <<>>
    /\ algorithm = Some(<<>>)
    /\ called_algorithm_name = ""
    /\ results = ZerosResults(0)
    /\ scaling_results = ZerosScaling(0)
    /\ efficiency_results = ZerosScaling(0)
    /\ i = 1
    /\ pc = "call"
    /\ err = "none"
    /\ stdout = <<>>
    /\ written = {}
    /\ global_optimum = <<>>
    /\ second_optimum = <<>>
    /\ ResorterIdle
    /\ AccessorIdle
    /\ FlowIdle

\* algorithm = determine_algorithm(algorithm_name) for some argument, with
\* the print of the else branch
CallDetermineAlgorithm ==
    /\ pc = "call"
    /\ \E name \in AlgorithmNames :
        /\ called_algorithm_name' = name
        /\ algorithm' = determine_algorithm(name, line)
        /\ stdout' = IF algorithm'.isNone
                     THEN Append(stdout, <<"Unknown algorithm name:", name>>)
                     ELSE stdout
    /\ pc' = "returned"
    /\ UNCHANGED <<resorter_vars, flow_vars, accessor_vars>>
    /\ UNCHANGED <<read_content_weak, read_content_strong, core_ticks, line,
                   results, scaling_results, efficiency_results, i, err, written,
                   global_optimum, second_optimum>>

DetermineNext == CallDetermineAlgorithm

DetermineSpec == DetermineInit /\ [][DetermineNext]_vars

(***************************************************************************)
(* evaluate_benchmark_new.py: core tick discovery and weak aggregation     *)
(***************************************************************************)
\* ALGORITHMS of evaluate_benchmark_new.py
ALGORITHMS_new == <<"two_lattice", "two_lattice_framework", "two_step", "swap", "shift">>

\* set_result of evaluate_benchmark_new.py, for an index inside the array
set_result_new(res, algo, access_pattern, content, core_tick, value) ==
    [res EXCEPT ![<<LookupIndex(ALGORITHMS_new, algo),
                    LookupIndex(ACCESS_PATTERNS, access_pattern),
                    LookupIndex(CONTENTS, content),
                    core_tick>>] = value]

\* The first loop "for current_algorithm in algorithm": the average
RECURSIVE StoreAveragesNew(_, _, _, _, _)
StoreAveragesNew(res, families, access_pattern, core_tick, value) ==
    IF families = <<>> THEN res
    ELSE StoreAveragesNew(
            set_result_new(res, Head(families), access_pattern, "averages",
                           core_tick, value),
            Tail(families), access_pattern, core_tick, value)

\* The second loop "for current_algorithm in algorithm": both bounds
RECURSIVE StoreBoundsNew(_, _, _, _, _, _)
StoreBoundsNew(res, families, access_pattern, core_tick, lower, upper) ==
    IF families = <<>> THEN res
    ELSE StoreBoundsNew(
            set_result_new(
                set_result_new(res, Head(families), access_pattern, "lower_bounds",
                               core_tick, lower),
                Head(families), access_pattern, "upper_bounds", core_tick, upper),
            Tail(families), access_pattern, core_tick, lower, upper)

\* The exception the loop body raises for a row, "none" if it raises none:
\* iterating over None is a TypeError, math.log2(0) a ValueError, an index
\* int(math.log2(cores)) outside the tick axis an IndexError, and
\* core_ticks.index of an absent core count a ValueError
RowExceptionNew(row, ticks) ==
    IF determine_algorithm(Col(row, 0), row).isNone THEN "TypeError"
    ELSE IF Col(row, 2) < 1 THEN "ValueError"
    ELSE IF Log2(Col(row, 2)) >= Len(ticks) THEN "IndexError"
    ELSE IF ListIndex(ticks, Col(row, 2)) = -1 THEN "ValueError"
    ELSE "none"

\* The array after the loop body for a row: nothing is stored when the
\* first set_result is not reached, the averages alone when
\* core_ticks.index raises after the first loop
StoreRowNew(res, families, row, ticks) ==
    IF \/ determine_algorithm(Col(row, 0), row).isNone
       \/ Col(row, 2) < 1
       \/ Log2(Col(row, 2)) >= Len(ticks)
    THEN res
    ELSE IF ListIndex(ticks, Col(row, 2)) = -1
    THEN StoreAveragesNew(res, families, Col(row, 1), Log2(Col(row, 2)),
                          average_of(extract_runtimes_from_line(row)))
    ELSE StoreBoundsNew(
            StoreAveragesNew(res, families, Col(row, 1), Log2(Col(row, 2)),
                             average_of(extract_runtimes_from_line(row))),
            families, Col(row, 1), ListIndex(ticks, Col(row, 2)),
            confidence_error(std_squared(extract_runtimes_from_line(row)),
                             Len(extract_runtimes_from_line(row)))[1],
            confidence_error(std_squared(extract_runtimes_from_line(row)),
                             Len(extract_runtimes_from_line(row)))[2])

\* Most data rows of a weak scaling file of evaluate_benchmark_new.py
MaxNewRows == 2

\* Rows of a parallel algorithm and of the fan-out baseline on 1, 2, 4 cores
NewRows ==
    {<<a, "collision", c, r>> : a \in {"parallel_two_step", "sequential_two_lattice"},
                               c \in {1, 2, 4},
                               r \in {2, 10}}

\* State after both files have been read
NewInit ==
    /\ read_content_weak \in Files(NewRows, MaxNewRows)
    /\ read_content_strong = <<Header>>
    /\ core_ticks = <<>>
    /\ line = Header
    /\ algorithm = Some(<<>>)
    /\ called_algorithm_name = ""
    /\ results = ZerosResults(0)
    /\ scaling_results = ZerosScaling(0)
    /\ efficiency_results = ZerosScaling(0)
    /\ i = 1
    /\ pc = "new_core_ticks"
    /\ err = "none"
    /\ stdout = <<>>
    /\ written = {}
    /\ global_optimum = <<>>
    /\ second_optimum = <<>>
    /\ ResorterIdle
    /\ AccessorIdle
    /\ FlowIdle

\* "Determine core ticks" and the allocation of results
DetermineCoreTicksNew ==
    /\ pc = "new_core_ticks"
    /\ err = "none"
    /\ core_ticks' = TickScan(read_content_weak, 1, <<>>, 0)
    /\ results' = ZerosResults(Len(core_ticks'))
    /\ i' = 1
    /\ pc' = IF Len(read_content_weak) > 1 THEN "new_weak_aggregation"
             ELSE "new_weak_pattern"
    /\ UNCHANGED <<called_algorithm_name, resorter_vars, flow_vars, accessor_vars>>
    /\ UNCHANGED <<read_content_weak, read_content_strong, line, algorithm, err,
                   stdout, written, global_optimum, second_optimum,
                   scaling_results, efficiency_results>>

\* One pass of the weak scaling aggregation loop
AggregateWeakNew ==
    /\ pc = "new_weak_aggregation"
    /\ err = "none"
    /\ line' = Row(read_content_weak, i)
    /\ called_algorithm_name' = Col(line', 0)
    /\ algorithm' = determine_algorithm(called_algorithm_name', line')
    /\ stdout' = Diagnostics(stdout, line')
    /\ err' = RowExceptionNew(line', core_ticks)
    /\ results' = StoreRowNew(results, algorithm'.list, line', core_ticks)
    /\ IF err' # "none"
       THEN UNCHANGED <<pc, i>>
       ELSE IF i + 1 < Len(read_content_weak)
       THEN i' = i + 1 /\ pc' = "new_weak_aggregation"
       ELSE i' = 0 /\ pc' = "new_weak_pattern"
    /\ UNCHANGED <<resorter_vars, flow_vars, accessor_vars>>
    /\ UNCHANGED <<read_content_weak, read_content_strong, core_ticks, written,
                   global_optimum, second_optimum, scaling_results,
                   efficiency_results>>

NewNext ==
    \/ DetermineCoreTicksNew
    \/ AggregateWeakNew

NewSpec == NewInit /\ [][NewNext]_vars

(***************************************************************************)
(* The keyed accessors called with keys of their lookup lists              *)
(***************************************************************************)
\* Most set_result / set_scaling_result calls of a behaviour
MaxCalls == 1

\* The values written
AccessorValues == {F(2, 1), F(7, 1)}

\* The tick list of the arrays the accessors are called on
AccessorTicks == <<1, 2>>

\* Arrays as allocated by numpy.zeros, no call made
AccessorInit ==
    /\ core_ticks = AccessorTicks
    /\ results = ZerosResults(Len(AccessorTicks))
    /\ scaling_results = ZerosScaling(Len(AccessorTicks))
    /\ efficiency_results = ZerosScaling(Len(AccessorTicks))
    /\ read_content_weak = <<Header>>
    /\ read_content_strong = <<Header>>
    /\ line = Header
    /\ algorithm = Some(<<>>)
    /\ called_algorithm_name = ""
    /\ i = 0
    /\ pc = "accessors"
    /\ err = "none"
    /\ stdout = <<>>
    /\ written = {}
    /\ global_optimum = <<>>
    /\ second_optimum = <<>>
    /\ ResorterIdle
    /\ AccessorIdle
    /\ FlowIdle

\* set_result(results, algorithm, access_pattern, content, core_tick, value)
SetResult ==
    /\ pc = "accessors"
    /\ calls < MaxCalls
    /\ \E algo \in Range(ALGORITHMS), access_pattern \in Range(ACCESS_PATTERNS),
          content \in Range(CONTENTS), core_tick \in 0..(Len(core_ticks) - 1),
          value \in AccessorValues :
        /\ results' = set_result(results, algo, access_pattern, content,
                                 core_tick, value)
        /\ call' = [op |-> "set_result", algorithm |-> algo,
                    access_pattern |-> access_pattern, content |-> content,
                    core_tick |-> core_tick, value |-> value]
    /\ calls' = calls + 1
    /\ UNCHANGED <<returned, resorter_vars, flow_vars>>
    /\ UNCHANGED <<read_content_weak, read_content_strong, core_ticks, line,
                   algorithm, called_algorithm_name, scaling_results,
                   efficiency_results, i, pc, err, stdout, written,
                   global_optimum, second_optimum>>

\* get_result with the key of the set_result call before it
GetResult ==
    /\ pc = "accessors"
    /\ call.op = "set_result"
    /\ returned' = get_result(results, call.algorithm, call.access_pattern,
                              call.content, call.core_tick)
    /\ call' = [call EXCEPT !.op = "get_result"]
    /\ UNCHANGED <<calls, resorter_vars, flow_vars, evaluation_vars>>

\* set_scaling_result(scaling_results, algorithm, access_pattern, core_tick, value)
SetScalingResult ==
    /\ pc = "accessors"
    /\ calls < MaxCalls
    /\ \E algo \in Range(ALGORITHMS), access_pattern \in Range(ACCESS_PATTERNS),
          core_tick \in 0..(Len(core_ticks) - 1), value \in AccessorValues :
        /\ scaling_results' = set_scaling_result(scaling_results, algo,
                                                 access_pattern, core_tick, value)
        /\ call' = [op |-> "set_scaling_result", algorithm |-> algo,
                    access_pattern |-> access_pattern, content |-> "",
                    core_tick |-> core_tick, value |-> value]
    /\ calls' = calls + 1
    /\ UNCHANGED <<returned, resorter_vars, flow_vars>>
    /\ UNCHANGED <<read_content_weak, read_content_strong, core_ticks, line,
                   algorithm, called_algorithm_name, results,
                   efficiency_results, i, pc, err, stdout, written,
                   global_optimum, second_optimum>>

\* get_scaling_result with the key of the set_scaling_result call before it
GetScalingResult ==
    /\ pc = "accessors"
    /\ call.op = "set_scaling_result"
    /\ returned' = get_scaling_result(scaling_results, call.algorithm,
                                      call.access_pattern, call.core_tick)
    /\ call' = [call EXCEPT !.op = "get_scaling_result"]
    /\ UNCHANGED <<calls, resorter_vars, flow_vars, evaluation_vars>>

AccessorNext ==
    \/ SetResult
    \/ GetResult
    \/ SetScalingResult
    \/ GetScalingResult

AccessorSpec == AccessorInit /\ [][AccessorNext]_vars

(***************************************************************************)
(* visualize_flow.py (visualize_data.py allocates and fills the same way)  *)
(***************************************************************************)
\* Most time steps, x and y coordinates of a results file
MaxExtent == 2

\* The header row of results.csv; of a data row the model keeps the
\* columns time step, x and y, the ones the indices are computed from
FlowHeader == <<"time_step", "x", "y">>

\* A results file with nt time steps from t0 and an nx times ny grid from
\* (x0, y0), sorted by time step, then y, then x: the first data row holds
\* the minimum and the last the maximum of every column
FlowFile(t0, x0, y0, nt, nx, ny) ==
    <<FlowHeader>>
    \o [r \in 1..(nt * nx * ny) |->
            <<t0 + ((r - 1) \div (nx * ny)),
              x0 + ((r - 1) % nx),
              y0 + (((r - 1) \div nx) % ny)>>]

FlowFiles ==
    {FlowFile(t0, x0, y0, nt, nx, ny) :
        t0 \in {0, 1}, x0 \in {0, 1}, y0 \in {0, 1},
        nt \in 1..MaxExtent, nx \in 1..MaxExtent, ny \in 1..MaxExtent}

\* The position an index addresses on an axis of length len, -1 when
\* Python raises IndexError: a negative index counts from the end
AxisIndex(index, len) ==
    IF index >= 0 /\ index < len THEN index
    ELSE IF index < 0 /\ index >= -len THEN index + len
    ELSE -1

\* State after results.csv has been read
FlowInit ==
    /\ results_csv \in FlowFiles
    /\ min_time_step = 0
    /\ min_x = 0
    /\ min_y = 0
    /\ max_time_step = 0
    /\ max_x = 0
    /\ max_y = 0
    /\ densities = {}
    /\ flow_row = 1
    /\ fpc = "bounds"
    /\ ferr = "none"
    /\ EvaluationIdle
    /\ ResorterIdle
    /\ AccessorIdle

\* Lines 22-34: the minima from the first data row, the maxima from the
\* last row, and the allocation of max_time_step + 1 grids [max_y, max_x]
ReadBounds ==
    /\ fpc = "bounds"
    /\ ferr = "none"
    /\ IF Len(results_csv) < 2
       THEN /\ ferr' = "IndexError"
            /\ UNCHANGED <<min_time_step, min_x, min_y, max_time_step, max_x,
                           max_y, fpc>>
       ELSE /\ min_time_step' = results_csv[2][1]
            /\ min_x' = results_csv[2][2]
            /\ min_y' = results_csv[2][3]
            /\ max_time_step' = results_csv[Len(results_csv)][1]
            /\ max_x' = results_csv[Len(results_csv)][2]
            /\ max_y' = results_csv[Len(results_csv)][3]
            /\ fpc' = "fill"
            /\ ferr' = "none"
    /\ UNCHANGED <<results_csv, densities, flow_row>>
    /\ UNCHANGED <<evaluation_vars, resorter_vars, accessor_vars>>

\* Lines 36-39: one pass of the fill loop
FillRow ==
    /\ fpc = "fill"
    /\ ferr = "none"
    /\ LET t == AxisIndex(results_csv[flow_row + 1][1] - min_time_step,
                          max_time_step + 1)
           y == AxisIndex(results_csv[flow_row + 1][3] - min_y, max_y)
           x == AxisIndex(results_csv[flow_row + 1][2] - min_x, max_x)
       IN IF t = -1 \/ y = -1 \/ x = -1
          THEN /\ ferr' = "IndexError"
               /\ UNCHANGED <<densities, flow_row, fpc>>
          ELSE /\ densities' = densities \cup {<<t, y, x>>}
               /\ ferr' = "none"
               /\ IF flow_row + 1 < Len(results_csv)
                  THEN flow_row' = flow_row + 1 /\ fpc' = "fill"
                  ELSE flow_row' = flow_row /\ fpc' = "plot"
    /\ UNCHANGED <<results_csv, min_time_step, min_x, min_y, max_time_step,
                   max_x, max_y>>
    /\ UNCHANGED <<evaluation_vars, resorter_vars, accessor_vars>>

FlowNext ==
    \/ ReadBounds
    \/ FillRow

FlowSpec == FlowInit /\ [][FlowNext]_vars

(***************************************************************************)
(* Properties                                                              *)
(***************************************************************************)
\* An aggregation loop has run its body for the row in `line`
RowProcessed == algorithm # Some(<<>>)

\* The family a recognized algorithm name is named after
NamedFamily ==
    [name \in (Range(SEQUENTIAL_ALGORITHMS) \cup Range(PARALLEL_ALGORITHMS)) |->
        CASE name \in {"parallel_two_lattice", "sequential_two_lattice"} -> "two_lattice"
          [] name = "parallel_two_lattice_framework" -> "two_lattice_framework"
          [] name \in {"parallel_two_step", "sequential_two_step"} -> "two_step"
          [] name \in {"parallel_swap", "sequential_swap"} -> "swap"
          [] name \in {"parallel_shift", "sequential_shift"} -> "shift"]

\* C1: whenever an aggregation loop has resolved the families of a row,
\* the name sequential_two_lattice has resolved to exactly the two families
\* two_lattice and two_lattice_framework, and every other recognized name
\* to exactly one family, the one named after its algorithm.
C1_FamilyResolution ==
    (RowProcessed /\ Col(line, 0) \in DOMAIN NamedFamily) =>
        /\ ~algorithm.isNone
        /\ IF Col(line, 0) = "sequential_two_lattice"
           THEN /\ Len(algorithm.list) = 2
                /\ Range(algorithm.list) = {"two_lattice", "two_lattice_framework"}
           ELSE algorithm.list = <<NamedFamily[Col(line, 0)]>>

C1_Witness ==
    /\ RowProcessed
    /\ Col(line, 0) = "sequential_two_lattice"
    /\ Len(algorithm.list) = 2
    /\ err = "none"

\* The script is past the weak / strong aggregation loop and `results`
\* holds the aggregates of that file
WeakAggregated ==
    pc \in {"weak_pattern", "weak_speedup_ranking", "weak_efficiency_ranking"}
StrongAggregated ==
    pc \in {"strong_pattern", "strong_speedup_ranking", "strong_efficiency_ranking",
            "done"}
AggregatedFile == IF WeakAggregated THEN read_content_weak ELSE read_content_strong

\* The families of a data row, as the aggregation loop resolves them
FamiliesOf(row) == determine_algorithm(Col(row, 0), row).list

\* The data rows (by index) that the loop stores into the cell of
\* algorithm index a, access pattern index p and tick index t
RowsOfCell(file, a, p, t) ==
    {r \in 1..(Len(file) - 1) :
        /\ \E f \in Range(FamiliesOf(Row(file, r))) : LookupIndex(ALGORITHMS, f) = a
        /\ LookupIndex(ACCESS_PATTERNS, Col(Row(file, r), 1)) = p
        /\ ListIndex(core_ticks, Col(Row(file, r), 2)) = t}

\* The runtimes of the rows rows of file, concatenated in file order
RECURSIVE UnionOfRuntimes(_, _, _)
UnionOfRuntimes(file, rows, r) ==
    IF r >= Len(file) THEN <<>>
    ELSE (IF r \in rows THEN extract_runtimes_from_line(Row(file, r)) ELSE <<>>)
         \o UnionOfRuntimes(file, rows, r + 1)

LastOf(rows) == CHOOSE r \in rows : \A q \in rows : q <= r

WeakComputed(q) ==
    \/ pc = "weak_pattern" /\ (q < i \/ (q = i /\ err # "none"))
    \/ pc \in {"weak_speedup_ranking", "weak_efficiency_ranking"}
StrongComputed(q) ==
    \/ pc = "strong_pattern" /\ (q < i \/ (q = i /\ err # "none"))
    \/ pc \in {"strong_speedup_ranking", "strong_efficiency_ranking", "done"}

StoredAverage(a, q, t) == results[<<a, q, 0, t>>]

\* C3: strong scaling: for every family, access pattern and tick index t
\* with core count c_t, the stored speedup is average[0] / average[t] and the
\* stored efficiency is that speedup divided by c_t.
C3_StrongScaling ==
    \A a \in 0..(Len(ALGORITHMS) - 1), q \in 0..(Len(ACCESS_PATTERNS) - 1),
       t \in 0..(Len(core_ticks) - 1) :
        StrongComputed(q) =>
            /\ scaling_results[<<a, q, t>>]
                = FDiv(StoredAverage(a, q, 0), StoredAverage(a, q, t))
            /\ efficiency_results[<<a, q, t>>]
                = FDiv(scaling_results[<<a, q, t>>], F(core_ticks[t + 1], 1))

\* Ticks [1, 4] with averages 10 and 2 for two_step / stream: speedup 5,
\* efficiency 5/4
C3_Witness ==
    /\ StrongComputed(2)
    /\ core_ticks = <<1, 4>>
    /\ get_result(results, "two_step", "stream", "averages", 0) = F(10, 1)
    /\ get_result(results, "two_step", "stream", "averages", 1) = F(2, 1)
    /\ get_scaling_result(scaling_results, "two_step", "stream", 1) = F(5, 1)
    /\ get_scaling_result(efficiency_results, "two_step", "stream", 1) = F(5, 4)

\* C4: weak scaling: for every family, access pattern and tick index t
\* with core count c_t, the stored speedup is c_t * average[0] / average[t]
\* and the stored efficiency is that speedup divided by c_t, that is
\* average[0] / average[t]; on more than one core a finite non-zero weak
\* speedup differs from the strong formula average[0] / average[t].
C4_WeakScaling ==
    \A a \in 0..(Len(ALGORITHMS) - 1), q \in 0..(Len(ACCESS_PATTERNS) - 1),
       t \in 0..(Len(core_ticks) - 1) :
        WeakComputed(q) =>
            /\ scaling_results[<<a, q, t>>]
                = FDiv(FMul(F(core_ticks[t + 1], 1), StoredAverage(a, q, 0)),
                       StoredAverage(a, q, t))
            /\ efficiency_results[<<a, q, t>>]
                = FDiv(scaling_results[<<a, q, t>>], F(core_ticks[t + 1], 1))
            /\ efficiency_results[<<a, q, t>>]
                = FDiv(StoredAverage(a, q, 0), StoredAverage(a, q, t))
            /\ (/\ core_ticks[t + 1] > 1
                /\ IsFinite(scaling_results[<<a, q, t>>])
                /\ scaling_results[<<a, q, t>>] # Zero)
               => scaling_results[<<a, q, t>>]
                    # FDiv(StoredAverage(a, q, 0), StoredAverage(a, q, t))

\* Ticks [1, 4] with averages 10 and 2 for two_step / stream: weak speedup
\* 20, weak efficiency 5
C4_Witness ==
    /\ WeakComputed(2)
    /\ core_ticks = <<1, 4>>
    /\ get_result(results, "two_step", "stream", "averages", 0) = F(10, 1)
    /\ get_result(results, "two_step", "stream", "averages", 1) = F(2, 1)
    /\ get_scaling_result(scaling_results, "two_step", "stream", 1) = F(20, 1)
    /\ get_scaling_result(efficiency_results, "two_step", "stream", 1) = F(5, 1)

C6_UnknownRowSkipped ==
    (RowProcessed /\ algorithm.isNone) => (stdout # <<>> /\ err = "none")

\* C7 as claimed: when the average of a cell that a row was stored into is
\* zero, no infinity and no NaN is stored as its speedup or its efficiency.
C7_NoValueForZeroAverage ==
    \A a \in 0..(Len(ALGORITHMS) - 1), q \in 0..(Len(ACCESS_PATTERNS) - 1),
       t \in 0..(Len(core_ticks) - 1) :
        (/\ WeakComputed(q) \/ StrongComputed(q)
         /\ RowsOfCell(AggregatedFile, a, q, t) # {}
         /\ StoredAverage(a, q, t) = Zero) =>
            /\ IsFinite(scaling_results[<<a, q, t>>])
            /\ IsFinite(efficiency_results[<<a, q, t>>])

\* C8 as claimed: the scaling factors of an access pattern are computed
\* only when every cell they read has received a row of the input.
C8_NoReadOfEmptyBucket ==
    \A a \in 0..(Len(ALGORITHMS) - 1), q \in 0..(Len(ACCESS_PATTERNS) - 1),
       t \in 0..(Len(core_ticks) - 1) :
        (WeakComputed(q) \/ StrongComputed(q)) =>
            RowsOfCell(AggregatedFile, a, q, t) # {}

\* C9 as claimed: a data row with fewer than 4 columns fails when it is
\* loaded.
C9_ShortRowFails ==
    (RowProcessed /\ Len(line) < 4) => err # "none"

\* C10: every core tick is at least 1, and a data row whose core count is
\* less than 1 makes the aggregation loop fail (with a ValueError, or a
\* TypeError when its algorithm name is unknown as well); a row that is
\* stored has a core count of at least 1.
C10_PositiveCoreCounts ==
    /\ \A j \in 1..Len(core_ticks) : core_ticks[j] >= 1
    /\ (RowProcessed /\ Col(line, 2) < 1) => err \in {"ValueError", "TypeError"}

\* The aggregation loop has failed on a row with core count 0
C10_Witness ==
    /\ pc \in {"weak_aggregation", "strong_aggregation"}
    /\ RowProcessed
    /\ Col(line, 2) = 0
    /\ err = "ValueError"

\* C11 as claimed: no chart is written before all rows of both input
\* files have been processed by the aggregation loops; in particular a row
\* on which the strong aggregation loop fails leaves no chart behind.
C11_NoChartBeforeAllRowsParsed ==
    /\ written # {} => StrongAggregated
    /\ (pc = "strong_aggregation" /\ err # "none") => written = {}

\* The core count of the r-th data row of the weak scaling file
CoreOf(r) == Col(Row(read_content_weak, r), 2)

\* The largest core count before the r-th data row, 0 before the first
SeenBefore(r) ==
    IF r = 1 THEN 0
    ELSE CHOOSE m \in {0} \cup {CoreOf(q) : q \in 1..(r - 1)} :
            \A q \in 1..(r - 1) : CoreOf(q) <= m

\* The first data row whose core count is smaller than the maximum before
\* it, the number of rows of the file when there is none
StopRow ==
    IF \E r \in 1..(Len(read_content_weak) - 1) : CoreOf(r) < SeenBefore(r)
    THEN CHOOSE r \in 1..(Len(read_content_weak) - 1) :
            /\ CoreOf(r) < SeenBefore(r)
            /\ \A q \in 1..(r - 1) : CoreOf(q) >= SeenBefore(q)
    ELSE Len(read_content_weak)

\* The rows whose core count the claim says is appended
AppendingRows == {r \in 1..(StopRow - 1) : CoreOf(r) > SeenBefore(r)}

\* C12: once the core ticks are determined, they are strictly increasing
\* (so free of duplicates) and are exactly the core counts of the data rows,
\* in file order, that exceed every core count before them (and 0, where the
\* maximum starts) and lie before the first row whose core count is smaller
\* than the maximum so far; rows from there on add no tick.
C12_TickDiscovery ==
    pc # "core_ticks" =>
        /\ \A j \in 1..(Len(core_ticks) - 1) : core_ticks[j] < core_ticks[j + 1]
        /\ Range(core_ticks) = {CoreOf(r) : r \in AppendingRows}
        /\ Len(core_ticks) = Cardinality(AppendingRows)

\* Ticks are determined for a file whose core counts are 2, 1, 4: the scan
\* stops at the second row and the third adds no tick
C12_Witness ==
    /\ pc # "core_ticks"
    /\ Len(read_content_weak) = 4
    /\ CoreOf(1) = 2 /\ CoreOf(2) = 1 /\ CoreOf(3) = 4
    /\ core_ticks = <<2>>

\* The data rows of file for the a-th family and the q-th access pattern
RowsOfFamilyPattern(file, a, q) ==
    {r \in 1..(Len(file) - 1) :
        /\ ALGORITHMS[a + 1] \in Range(FamiliesOf(Row(file, r)))
        /\ Col(Row(file, r), 1) = ACCESS_PATTERNS[q + 1]}

\* The smallest core count among the data rows rows of file
MinCore(file, rows) ==
    CHOOSE c \in {Col(Row(file, r), 2) : r \in rows} :
        \A r \in rows : c <= Col(Row(file, r), 2)

\* C13 as claimed: when the scaling factors of an access pattern have
\* been computed, tick index 0, where their baseline is read, is for every
\* family with rows for that access pattern in the aggregated file the
\* minimum core count observed for that family and access pattern.
C13_BaselineAtFamilyMinimum ==
    \A a \in 0..(Len(ALGORITHMS) - 1), q \in 0..(Len(ACCESS_PATTERNS) - 1) :
        (/\ WeakComputed(q) \/ StrongComputed(q)
         /\ RowsOfFamilyPattern(AggregatedFile, a, q) # {}) =>
            /\ Len(core_ticks) > 0
            /\ core_ticks[1]
                = MinCore(AggregatedFile, RowsOfFamilyPattern(AggregatedFile, a, q))

\* A valid input file: recognized algorithm names, access patterns of
\* ACCESS_PATTERNS, core counts of at least 1 and at least one runtime
ValidFile(file) ==
    \A r \in 1..(Len(file) - 1) :
        /\ Col(Row(file, r), 0) \in DOMAIN NamedFamily
        /\ Col(Row(file, r), 1) \in Range(ACCESS_PATTERNS)
        /\ Col(Row(file, r), 2) >= 1
        /\ Len(Row(file, r)) >= 4

\* The (family, access pattern, core count) triples of the rows of file
\* after fan-out
ReachableTriples(file) ==
    UNION {{<<f, Col(Row(file, r), 1), Col(Row(file, r), 2)>> :
                f \in Range(FamiliesOf(Row(file, r)))} :
            r \in 1..(Len(file) - 1)}

\* The data rows of file with the triple tr
RowsOfTriple(file, tr) ==
    {r \in 1..(Len(file) - 1) :
        /\ tr[1] \in Range(FamiliesOf(Row(file, r)))
        /\ tr[2] = Col(Row(file, r), 1)
        /\ tr[3] = Col(Row(file, r), 2)}

\* The cell of results a triple is stored in
CellOfTriple(tr) ==
    <<LookupIndex(ALGORITHMS, tr[1]), LookupIndex(ACCESS_PATTERNS, tr[2]),
      ListIndex(core_ticks, tr[3])>>

\* C14: after the aggregation of a valid file, every triple (family,
\* access pattern, core count) reachable from its rows after fan-out has a
\* cell of its own that holds the average and the bounds of a row with that
\* triple, distinct triples have distinct cells, every other cell is
\* untouched (0.0), and there are as many cells with a row stored as triples.
C14_OneBucketPerTriple ==
    ((WeakAggregated \/ StrongAggregated) /\ ValidFile(AggregatedFile)) =>
        LET triples == ReachableTriples(AggregatedFile)
            cells == {CellOfTriple(tr) : tr \in triples}
        IN /\ \A tr \in triples :
                LET row == Row(AggregatedFile, LastOf(RowsOfTriple(AggregatedFile, tr)))
                    runtimes == extract_runtimes_from_line(row)
                    cell == CellOfTriple(tr)
                IN /\ cell[3] \in 0..(Len(core_ticks) - 1)
                   /\ results[<<cell[1], cell[2], 0, cell[3]>>] = average_of(runtimes)
                   /\ results[<<cell[1], cell[2], 1, cell[3]>>]
                        = confidence_error(std_squared(runtimes), Len(runtimes))[1]
                   /\ results[<<cell[1], cell[2], 2, cell[3]>>]
                        = confidence_error(std_squared(runtimes), Len(runtimes))[2]
           /\ \A tr1, tr2 \in triples :
                CellOfTriple(tr1) = CellOfTriple(tr2) => tr1 = tr2
           /\ \A a \in 0..(Len(ALGORITHMS) - 1), p \in 0..(Len(ACCESS_PATTERNS) - 1),
                 t \in 0..(Len(core_ticks) - 1) :
                <<a, p, t>> \notin cells =>
                    \A k \in 0..(Len(CONTENTS) - 1) : results[<<a, p, k, t>>] = Zero
           /\ Cardinality({c \in (0..4) \X (0..2) \X (0..(Len(core_ticks) - 1)) :
                    RowsOfCell(AggregatedFile, c[1], c[2], c[3]) # {}})
                = Cardinality(triples)

\* A valid file with a fan-out row is aggregated: the sequential two
\* lattice row for stream on 1 core fills the cells of two triples, and 30
\* triples are reachable in all
C14_Witness ==
    /\ WeakAggregated
    /\ ValidFile(read_content_weak)
    /\ core_ticks = <<1, 4>>
    /\ Cardinality(ReachableTriples(read_content_weak)) = 30
    /\ <<"two_lattice", "stream", 1>> \in ReachableTriples(read_content_weak)
    /\ <<"two_lattice_framework", "stream", 1>> \in ReachableTriples(read_content_weak)
    /\ get_result(results, "two_lattice", "stream", "averages", 0) = F(10, 1)
    /\ get_result(results, "two_lattice_framework", "stream", "averages", 0) = F(10, 1)

\* A ranking has set global_optimum and second_optimum, and the array it
\* ranked still holds the values it ranked
Ranked ==
    /\ global_optimum # <<>>
    /\ \/ pc \in {"weak_efficiency_ranking", "strong_efficiency_ranking",
                  "strong_aggregation", "done"}
       \/ pc \in {"weak_speedup_ranking", "strong_speedup_ranking"} /\ err # "none"

RankedArray ==
    IF pc \in {"strong_aggregation", "done"} THEN efficiency_results
    ELSE scaling_results

\* The metric of a (family, access pattern) pair at the maximum core tick
RankedValue(family, access_pattern) ==
    get_scaling_result(RankedArray, family, access_pattern, Len(core_ticks) - 1)

\* The entry the ranking picks for a family
ChosenOf(family) == list_sort(RankingList(RankedArray, family, Len(core_ticks)))[1]

\* x >= y and x = y as Python compares floats (False with a NaN)
FGeq(x, y) == ~IsNaN(x) /\ ~IsNaN(y) /\ ~FLess(x, y)
FEq(x, y) == ~IsNaN(x) /\ ~IsNaN(y) /\ x = y

\* C15 as claimed: after a ranking, the entry chosen for each family has
\* a metric at the maximum core tick that is at least that of each of the
\* family's three access patterns, and global_optimum is a (family, access
\* pattern) pair whose metric is at least that of each of the 15 pairs
\* (pairs whose metric is NaN are not counted among those to be matched).
C15_BestIsLargest ==
    Ranked =>
        /\ \A f \in 1..Len(ALGORITHMS), p \in 1..Len(ACCESS_PATTERNS) :
                ~IsNaN(RankedValue(ALGORITHMS[f], ACCESS_PATTERNS[p])) =>
                    FGeq(ChosenOf(ALGORITHMS[f])[3],
                         RankedValue(ALGORITHMS[f], ACCESS_PATTERNS[p]))
        /\ global_optimum[3] = RankedValue(global_optimum[1], global_optimum[2])
        /\ \A f \in 1..Len(ALGORITHMS), p \in 1..Len(ACCESS_PATTERNS) :
                ~IsNaN(RankedValue(ALGORITHMS[f], ACCESS_PATTERNS[p])) =>
                    FGeq(global_optimum[3],
                         RankedValue(ALGORITHMS[f], ACCESS_PATTERNS[p]))

\* C16: after a ranking, the access pattern chosen for a family is the
\* earliest in the order collision, stream, bundle among those whose metric
\* equals the chosen one; global_optimum is the choice of the earliest
\* family, in the order two_lattice, two_lattice_framework, two_step, swap,
\* shift, among the families whose best value equals its value, and
\* second_optimum likewise among the remaining families.
C16_TiesByEncounterOrder ==
    Ranked =>
        /\ \A f \in 1..Len(ALGORITHMS), p \in 1..Len(ACCESS_PATTERNS) :
                FEq(RankedValue(ALGORITHMS[f], ACCESS_PATTERNS[p]),
                    ChosenOf(ALGORITHMS[f])[3])
                => LookupIndex(ACCESS_PATTERNS, ChosenOf(ALGORITHMS[f])[2]) <= p - 1
        /\ global_optimum = ChosenOf(global_optimum[1])
        /\ second_optimum = ChosenOf(second_optimum[1])
        /\ global_optimum[1] # second_optimum[1]
        /\ \A g \in 1..Len(RANKING_FAMILIES) :
                FEq(ChosenOf(RANKING_FAMILIES[g])[3], global_optimum[3])
                => LookupIndex(RANKING_FAMILIES, global_optimum[1]) <= g - 1
        /\ \A g \in 1..Len(RANKING_FAMILIES) :
                (/\ RANKING_FAMILIES[g] # global_optimum[1]
                 /\ FEq(ChosenOf(RANKING_FAMILIES[g])[3], second_optimum[3]))
                => LookupIndex(RANKING_FAMILIES, second_optimum[1]) <= g - 1

\* A ranking with ties: collision and bundle tie within two_lattice, and
\* two_lattice, two_step and shift tie for the best value
C16_Witness ==
    /\ Ranked
    /\ FEq(RankedValue("two_lattice", "collision"), RankedValue("two_lattice", "bundle"))
    /\ FEq(RankedValue("two_lattice", "collision"), RankedValue("two_step", "stream"))
    /\ FEq(RankedValue("two_lattice", "collision"), RankedValue("shift", "collision"))
    /\ global_optimum[1] = "two_lattice" /\ global_optimum[2] = "collision"
    /\ second_optimum[1] = "two_step" /\ second_optimum[2] = "stream"

\* The runtimes, in input order, of the data rows of a results file with
\* the given algorithm, access pattern and core count
RuntimesOfTriple(content, algo, access_pattern, core_count) ==
    LET Matches(row) ==
            row[1] = algo /\ row[2] = access_pattern /\ row[3] = core_count
        rows == SelectSeq(Tail(content), Matches)
    IN [k \in 1..Len(rows) |-> rows[k][4]]

\* C17 as claimed: a readable file that has been written holds, after the
\* header, one row per (algorithm, access pattern, core count) triple, no
\* triple twice, and each row holds after its three key fields the runtimes,
\* in input order, of exactly the rows of the results file with the same
\* algorithm, access pattern and core count (none when there is no such row).
C17_ReadableRows ==
    \A t \in DOMAIN readable_files :
        readable_files[t] # <<>> =>
            /\ readable_files[t][1] = Header
            /\ \A k \in 2..Len(readable_files[t]) :
                    /\ Len(readable_files[t][k]) >= 3
                    /\ SubSeq(readable_files[t][k], 4, Len(readable_files[t][k]))
                        = RuntimesOfTriple(results_files[t], readable_files[t][k][1],
                                           readable_files[t][k][2],
                                           readable_files[t][k][3])
            /\ \A k1, k2 \in 2..Len(readable_files[t]) :
                    SubSeq(readable_files[t][k1], 1, 3)
                        = SubSeq(readable_files[t][k2], 1, 3) => k1 = k2

\* The population variance of samples, mean((x - mean)^2), from the
\* deviations n*x - sum(x): sum((n*x - sum(x))^2) / n^3
RECURSIVE SumSqDeviations(_, _, _)
SumSqDeviations(samples, n, total) ==
    IF samples = <<>> THEN 0
    ELSE (n * Head(samples) - total) * (n * Head(samples) - total)
         + SumSqDeviations(Tail(samples), n, total)

PopulationVariance(samples) ==
    F(SumSqDeviations(samples, Len(samples), SumSeq(samples)),
      Len(samples) * Len(samples) * Len(samples))

\* s * sqrt(n / chi2_quantile(q, df = n)) with q = 1 - alpha/2 for the lower
\* and q = alpha/2 for the upper side, as the value the model carries for
\* it: the side, the square of s and the one n of numerator and df
ChiSquaredLimit(side, s_squared, n) ==
    [k |-> side, n |-> s_squared.n, d |-> s_squared.d, m |-> n]

\* C18: every step of an aggregation loop that stores a row with n samples
\* leaves, in the lower_bounds and upper_bounds buckets of each family of
\* the row, s*sqrt(n / chi2_quantile(1 - alpha/2, df = n)) and
\* s*sqrt(n / chi2_quantile(alpha/2, df = n)), where s is the population
\* standard deviation of the row's samples and n, not n - 1, is both the
\* numerator and the degrees of freedom, in the weak and the strong loop.
C18_ConfidenceBounds ==
    [][(pc \in {"weak_aggregation", "strong_aggregation"} /\ err' = "none") =>
        \A j \in 1..Len(algorithm'.list) :
            LET a == LookupIndex(ALGORITHMS, algorithm'.list[j])
                p == LookupIndex(ACCESS_PATTERNS, Col(line', 1))
                t == ListIndex(core_ticks, Col(line', 2))
                samples == extract_runtimes_from_line(line')
            IN /\ results'[<<a, p, 1, t>>]
                    = ChiSquaredLimit("lower", PopulationVariance(samples),
                                      Len(samples))
               /\ results'[<<a, p, 2, t>>]
                    = ChiSquaredLimit("upper", PopulationVariance(samples),
                                      Len(samples))]_vars

\* A row with two different samples has been stored: its bounds are those
\* of variance 16 and n = 2
C18_Witness ==
    /\ RowProcessed
    /\ err = "none"
    /\ pc \in {"weak_aggregation", "weak_pattern"}
    /\ extract_runtimes_from_line(line) = <<2, 10>>
    /\ get_result(results, algorithm.list[1], Col(line, 1), "lower_bounds",
                  ListIndex(core_ticks, Col(line, 2)))
            = [k |-> "lower", n |-> 16, d |-> 1, m |-> 2]
    /\ get_result(results, algorithm.list[1], Col(line, 1), "upper_bounds",
                  ListIndex(core_ticks, Col(line, 2)))
            = [k |-> "upper", n |-> 16, d |-> 1, m |-> 2]

\* C19 as claimed: the family list a call of determine_algorithm has
\* returned is the one the call returns for the same argument under every
\* other value of the module-level variable `line`.
C19_ArgumentAlone ==
    pc = "returned" =>
        \A other \in DetermineLines :
            determine_algorithm(called_algorithm_name, other) = algorithm

\* C20: every step of an aggregation loop that stores a
\* sequential_two_lattice row for access pattern p and core count c leaves
\* the buckets (two_lattice, p, c) and (two_lattice_framework, p, c) with
\* the same average, the mean of the row, the same lower bound and the
\* same upper bound.
C20_SharedBaseline ==
    [][(/\ pc \in {"weak_aggregation", "strong_aggregation"}
        /\ err' = "none"
        /\ Col(line', 0) = "sequential_two_lattice") =>
        LET p == LookupIndex(ACCESS_PATTERNS, Col(line', 1))
            t == ListIndex(core_ticks, Col(line', 2))
            lattice == LookupIndex(ALGORITHMS, "two_lattice")
            framework == LookupIndex(ALGORITHMS, "two_lattice_framework")
        IN /\ lattice # framework
           /\ results'[<<lattice, p, 0, t>>]
                = average_of(extract_runtimes_from_line(line'))
           /\ \A c \in 0..(Len(CONTENTS) - 1) :
                results'[<<lattice, p, c, t>>] = results'[<<framework, p, c, t>>]]_vars

\* A sequential_two_lattice row with mean 10 has been stored and both
\* families hold 10 as their single-core average
C20_Witness ==
    /\ RowProcessed
    /\ err = "none"
    /\ pc \in {"weak_aggregation", "weak_pattern"}
    /\ Col(line, 0) = "sequential_two_lattice"
    /\ Col(line, 2) = 1
    /\ get_result(results, "two_lattice", Col(line, 1), "averages",
                  ListIndex(core_ticks, 1)) = F(10, 1)
    /\ get_result(results, "two_lattice_framework", Col(line, 1), "averages",
                  ListIndex(core_ticks, 1)) = F(10, 1)

\* C21 as claimed: after a ranking, second_optimum is the entry chosen for
\* a family other than that of global_optimum, its metric is not larger
\* than that of global_optimum, and no third family's chosen entry has a
\* larger metric (chosen entries whose metric is NaN are not counted among
\* those to be matched): it is the second largest of the five per-family
\* bests.
C21_RunnerUpIsSecondLargest ==
    Ranked =>
        /\ second_optimum = ChosenOf(second_optimum[1])
        /\ second_optimum[1] # global_optimum[1]
        /\ FGeq(global_optimum[3], second_optimum[3])
        /\ \A g \in 1..Len(RANKING_FAMILIES) :
                (/\ RANKING_FAMILIES[g] \notin {global_optimum[1], second_optimum[1]}
                 /\ ~IsNaN(ChosenOf(RANKING_FAMILIES[g])[3]))
                => FGeq(second_optimum[3], ChosenOf(RANKING_FAMILIES[g])[3])

\* C22: a step of an aggregation loop on a row whose core count is not in
\* core_ticks ends the run with an exception and changes no cell of
\* results; a step that stores a row changes only cells of the tick index
\* whose tick is the row's core count, and leaves the row's mean in the
\* averages cell of that tick for each of the row's families.
C22_StoredAtOwnTick ==
    [][(pc \in {"weak_aggregation", "strong_aggregation"}) =>
        (IF Col(line', 2) \notin Range(core_ticks)
        THEN err' # "none" /\ results' = results
        ELSE err' = "none" =>
            /\ \A key \in DOMAIN results :
                    results'[key] # results[key]
                        => core_ticks[key[4] + 1] = Col(line', 2)
            /\ \A j \in 1..Len(algorithm'.list), t \in 0..(Len(core_ticks) - 1) :
                    core_ticks[t + 1] = Col(line', 2) =>
                        results'[<<LookupIndex(ALGORITHMS, algorithm'.list[j]),
                                   LookupIndex(ACCESS_PATTERNS, Col(line', 1)),
                                   0, t>>]
                            = average_of(extract_runtimes_from_line(line')))]_vars

\* A row with core count 4 has been stored at index 1 of the ticks 1, 4
C22_Witness ==
    /\ RowProcessed
    /\ err = "none"
    /\ pc \in {"weak_aggregation", "weak_pattern"}
    /\ core_ticks = <<1, 4>>
    /\ Col(line, 2) = 4
    /\ ~IsNaN(average_of(extract_runtimes_from_line(line)))
    /\ average_of(extract_runtimes_from_line(line)) # Zero
    /\ get_result(results, algorithm.list[1], Col(line, 1), "averages", 1)
            = average_of(extract_runtimes_from_line(line))

\* C23 as claimed: in evaluate_benchmark_new.py, a step of the weak
\* aggregation loop on a row of a known algorithm whose core count is in
\* core_ticks raises no exception, changes only cells at the position of
\* that core count in core_ticks, and leaves there the mean of the row as
\* the average and the row's lower and upper bound, for each of the row's
\* families.
C23_OneTickIndexPerRow ==
    [][(/\ pc = "new_weak_aggregation"
        /\ ~algorithm'.isNone
        /\ Col(line', 2) \in Range(core_ticks)) =>
        LET t == ListIndex(core_ticks, Col(line', 2))
            p == LookupIndex(ACCESS_PATTERNS, Col(line', 1))
            samples == extract_runtimes_from_line(line')
        IN /\ err' = "none"
           /\ \A key \in DOMAIN results :
                    results'[key] # results[key] => key[4] = t
           /\ \A j \in 1..Len(algorithm'.list) :
                LET a == LookupIndex(ALGORITHMS_new, algorithm'.list[j])
                IN /\ results'[<<a, p, 0, t>>] = average_of(samples)
                   /\ results'[<<a, p, 1, t>>]
                        = confidence_error(std_squared(samples), Len(samples))[1]
                   /\ results'[<<a, p, 2, t>>]
                        = confidence_error(std_squared(samples), Len(samples))[2]]_vars

\* C24 as claimed: a step of an aggregation loop on a row whose access
\* pattern is not one of collision, stream, bundle changes no cell of
\* results, the array of the aggregates of the three known access patterns.
C24_UnknownPatternChangesNothing ==
    [][(/\ pc \in {"weak_aggregation", "strong_aggregation"}
        /\ Col(line', 1) \notin Range(ACCESS_PATTERNS)) =>
        results' = results]_vars

\* C25: a get_result call that follows a set_result call with the same
\* family, access pattern, content and tick index returns the value
\* written, and a get_scaling_result call that follows a
\* set_scaling_result call with the same key returns the value written,
\* for every key of the lookup lists and every valid tick index.
C25_RoundTrip ==
    call.op \in {"get_result", "get_scaling_result"} => returned = call.value

\* get_scaling_result has read back 7 written for two_step, the first
\* family of ALGORITHMS, at tick index 1
C25_Witness ==
    /\ call.op = "get_scaling_result"
    /\ call.algorithm = "two_step"
    /\ call.access_pattern = "bundle"
    /\ call.core_tick = 1
    /\ returned = F(7, 1)

\* The 0-based position of a member in a list
PositionIn(list, x) == CHOOSE j \in 0..(Len(list) - 1) : list[j + 1] = x

\* C26: a set_result step changes the cell at the positions of its
\* family, access pattern and content in their lists and at its tick index
\* to the value, and no other cell of results and no cell of
\* scaling_results; a set_scaling_result step likewise changes one cell of
\* scaling_results and none of results.
C26_OneCellChanges ==
    [][/\ call'.op = "set_result" =>
            /\ \A key \in DOMAIN results :
                    results'[key] =
                        IF key = <<PositionIn(ALGORITHMS, call'.algorithm),
                                   PositionIn(ACCESS_PATTERNS, call'.access_pattern),
                                   PositionIn(CONTENTS, call'.content),
                                   call'.core_tick>>
                        THEN call'.value ELSE results[key]
            /\ scaling_results' = scaling_results
       /\ call'.op = "set_scaling_result" =>
            /\ \A key \in DOMAIN scaling_results :
                    scaling_results'[key] =
                        IF key = <<PositionIn(ALGORITHMS, call'.algorithm),
                                   PositionIn(ACCESS_PATTERNS, call'.access_pattern),
                                   call'.core_tick>>
                        THEN call'.value ELSE scaling_results[key]
            /\ results' = results]_vars

\* set_result has written 7 into the upper bound of shift, bundle at tick
\* index 1 and the array holds one value other than zero
C26_Witness ==
    /\ call.op = "set_result"
    /\ call.algorithm = "shift"
    /\ call.access_pattern = "bundle"
    /\ call.content = "upper_bounds"
    /\ call.core_tick = 1
    /\ results[<<4, 2, 2, 1>>] = F(7, 1)
    /\ Cardinality({key \in DOMAIN results : results[key] # Zero}) = 1

\* The runtime fields (row, column) of the rows of a readable file for an
\* algorithm and an access pattern
RuntimeFields(file, algo, access_pattern) ==
    UNION {{<<k, j>> : j \in 4..Len(file[k])} :
            k \in {h \in 2..Len(file) :
                        file[h][1] = algo /\ file[h][2] = access_pattern}}

\* C27 as claimed: a readable file that has been written holds, for every
\* known algorithm and access pattern, as many runtime fields in its rows
\* of that algorithm and pattern as the results file has data rows of them:
\* each such data row has contributed its runtime once, whatever its core
\* count.
C27_NothingLostOrDuplicated ==
    \A t \in DOMAIN readable_files :
        readable_files[t] # <<>> =>
            \A algo \in Range(SEQUENTIAL_ALGORITHMS) \cup Range(PARALLEL_ALGORITHMS),
               access_pattern \in Range(ACCESS_PATTERNS) :
                Cardinality(RuntimeFields(readable_files[t], algo, access_pattern))
                    = Cardinality({k \in 2..Len(results_files[t]) :
                                    /\ results_files[t][k][1] = algo
                                    /\ results_files[t][k][2] = access_pattern})

\* The strong aggregation loop run over the rows of file from row r on,
\* with the tick list ticks and the array res: the exception that ends it
\* ("none" if none does) and the array it leaves (an array without a tick
\* axis has no cell to store into: every row raises on it)
RECURSIVE AggregateRows(_, _, _, _)
AggregateRows(file, r, ticks, res) ==
    IF r >= Len(file) THEN [err |-> "none", results |-> res]
    ELSE IF RowException(Row(file, r), ticks) # "none"
        THEN [err |-> RowException(Row(file, r), ticks), results |-> res]
    ELSE IF DOMAIN res = {} THEN [err |-> "none", results |-> res]
    ELSE AggregateRows(file, r + 1, ticks,
            StoreRow(res, FamiliesOf(Row(file, r)), Row(file, r),
                     ListIndex(ticks, Col(Row(file, r), 2))))

\* The scaling array of kind kind after the loop over ACCESS_PATTERNS
StrongScalingArray(kind, res, ticks) ==
    FillScaling(kind,
        FillScaling(kind,
            FillScaling(kind, ZerosScaling(Len(ticks)), res, ACCESS_PATTERNS[1],
                        ticks, 0, 1),
            res, ACCESS_PATTERNS[2], ticks, 0, 1),
        res, ACCESS_PATTERNS[3], ticks, 0, 1)

\* The (family index, access pattern index, core count) triples of the
\* core counts that occur in the strong scaling file
StrongKeys ==
    (0..(Len(ALGORITHMS) - 1)) \X (0..(Len(ACCESS_PATTERNS) - 1))
        \X {Col(Row(read_content_strong, r), 2) :
                r \in 1..(Len(read_content_strong) - 1)}

\* What the strong scaling part computes from read_content_strong when
\* the weak scaling file is weak: whether it fails and, if not, the
\* average, speedup and efficiency of every triple of StrongKeys
StrongOutcome(weak) ==
    LET ticks == TickScan(weak, 1, <<>>, 0)
        run == AggregateRows(read_content_strong, 1, ticks, ZerosResults(Len(ticks)))
        speedups == StrongScalingArray("strong_scaling", run.results, ticks)
        efficiencies == StrongScalingArray("strong_efficiency", run.results, ticks)
    IN IF run.err # "none" THEN [failed |-> TRUE, values |-> <<>>]
       ELSE [failed |-> FALSE,
             values |-> [key \in StrongKeys |->
                <<run.results[<<key[1], key[2], 0, ListIndex(ticks, key[3])>>],
                  speedups[<<key[1], key[2], ListIndex(ticks, key[3])>>],
                  efficiencies[<<key[1], key[2], ListIndex(ticks, key[3])>>]>>]]

\* The strong scaling part of this run has computed its values or failed
\* in its aggregation loop
StrongValuesSettled ==
    \/ pc \in {"strong_speedup_ranking", "strong_efficiency_ranking", "done"}
    \/ pc = "strong_aggregation" /\ err # "none"

\* What the strong scaling part of this run has computed
ObservedStrongOutcome ==
    IF pc = "strong_aggregation" THEN [failed |-> TRUE, values |-> <<>>]
    ELSE [failed |-> FALSE,
          values |-> [key \in StrongKeys |->
            <<results[<<key[1], key[2], 0, ListIndex(core_ticks, key[3])>>],
              scaling_results[<<key[1], key[2], ListIndex(core_ticks, key[3])>>],
              efficiency_results[<<key[1], key[2], ListIndex(core_ticks, key[3])>>]>>]]

\* C28 as claimed: once the strong scaling part of a run has computed
\* its averages, speedups and efficiencies, or has failed in its
\* aggregation loop, a run with the same strong scaling file and another
\* complete weak scaling file (parallel rows on no or on 4 cores; the weak
\* scaling part runs through on both) computes the same values for every family, access
\* pattern and core count of the strong scaling file, or fails as well.
C28_StrongDependsOnStrongFileOnly ==
    StrongValuesSettled =>
        \A weak \in CompleteFiles : StrongOutcome(weak) = ObservedStrongOutcome

\* C29 as claimed: once the bounds have been read from a results file
\* whose first data row holds the minimum and whose last row holds the
\* maximum of time step, x and y, every data row's indices
\* (t - min_time_step, y - min_y, x - min_x) lie inside the max_time_step + 1
\* grids of shape [max_y, max_x], and the fill loop raises no IndexError.
C29_IndicesInsideArrays ==
    fpc \in {"fill", "plot"} =>
        /\ ferr = "none"
        /\ \A r \in 2..Len(results_csv) :
                /\ results_csv[r][1] - min_time_step \in 0..max_time_step
                /\ results_csv[r][3] - min_y \in 0..(max_y - 1)
                /\ results_csv[r][2] - min_x \in 0..(max_x - 1)

====
